---- MODULE Spec2Model ----
(***************************************************************************)
(* Verification model of the speedball backend: the derived-metrics        *)
(* functions (age, age bracket, total score) and the list/detail handlers  *)
(* of the players, tests and results controllers over the Postgres store.  *)
(***************************************************************************)
EXTENDS Integers, Sequences, FiniteSets, TLC

VARIABLES
    today,      \* local calendar date seen by `new Date()` in the server process
    tz,         \* time zone of the server process: "utc" (UTC, and the zones
                \* east of it, where a date-only string keeps its calendar
                \* date) or "west" (behind UTC)
    players,    \* table players: id -> row
    tests,      \* table tests: id -> row
    results,    \* table test_results: sequence of rows in insertion order
    now,        \* timestamp handed out by the database for defaultNow()
    resp,       \* the last HTTP response sent
    inflight    \* the listing request whose two queries are awaited, if any

vars == <<today, tz, players, tests, results, now, resp, inflight>>

(***************************************************************************)
(* Bounds of the model                                                     *)
(***************************************************************************)
FirstYear == 2024
YearSpan == 1

TimeZones == {"west", "utc"}
AgeSpecIds == {"p1"}
\* birth years: one far in the past, every second year of the last 23 (each
\* covers two ages while `today` runs through a year), and the years `today`
\* runs through
BirthYears ==
    {1893} \cup {y \in (FirstYear - 23) .. (FirstYear + 1) :
                    (FirstYear - y) % 2 = 1 \/ y >= FirstYear}
BirthMonthDays == {<<1, 1>>, <<2, 29>>, <<6, 1>>}

\* an optional parameter is a set: empty when absent, {v} when given
None == {}

Val(opt) == CHOOSE v \in opt : TRUE

MaxResults == 2
MaxLimit == 2
BulkSizes == {1, 2}

ListPlayerPool == <<"p1", "p2">>
ListTestPool == <<"t1", "t2">>
MissingId == "x9"

NoResp == [status |-> 0, kind |-> "none"]

\* no listing request is between its queries and its response
NoInflight == [handler |-> "none"]

(***************************************************************************)
(* Calendar dates: what the JavaScript Date object computes                *)
(***************************************************************************)
IsLeap(y) == (y % 4 = 0 /\ y % 100 # 0) \/ y % 400 = 0

DaysInMonth(y, m) ==
    IF m = 2 THEN (IF IsLeap(y) THEN 29 ELSE 28)
    ELSE IF m \in {4, 6, 9, 11} THEN 30 ELSE 31

MkDate(y, m, d) == [y |-> y, m |-> m, d |-> d]

ValidDate(dt) ==
    dt.m \in 1..12 /\ dt.d >= 1 /\ dt.d <= DaysInMonth(dt.y, dt.m)

DateKey(dt) == (dt.y * 12 + (dt.m - 1)) * 31 + (dt.d - 1)

NextDay(dt) ==
    IF dt.d < DaysInMonth(dt.y, dt.m) THEN MkDate(dt.y, dt.m, dt.d + 1)
    ELSE IF dt.m < 12 THEN MkDate(dt.y, dt.m + 1, 1)
    ELSE MkDate(dt.y + 1, 1, 1)

PrevDay(dt) ==
    IF dt.d > 1 THEN MkDate(dt.y, dt.m, dt.d - 1)
    ELSE IF dt.m > 1 THEN MkDate(dt.y, dt.m - 1, DaysInMonth(dt.y, dt.m - 1))
    ELSE MkDate(dt.y - 1, 12, 31)

\* new Date("YYYY-MM-DD") is midnight UTC of that date; getFullYear(),
\* getMonth() and getDate() read it in the local time zone, which west of
\* UTC is still the evening of the day before.
LocalFields(dateOfBirth) ==
    IF tz = "west" THEN PrevDay(dateOfBirth) ELSE dateOfBirth

\* new Date(date) <= new Date(): midnight UTC of `date` against the current
\* instant. West of UTC the UTC calendar is one day ahead of the local one
\* during the last hours of the local day (`late`), so tomorrow's date is
\* then already accepted.
NotInFuture(date, late) ==
    IF tz = "west"
    THEN \/ DateKey(PrevDay(date)) < DateKey(today)
         \/ (PrevDay(date) = today /\ late)
    ELSE DateKey(date) <= DateKey(today)

BirthDates ==
    {dt \in {MkDate(y, md[1], md[2]) : y \in BirthYears, md \in BirthMonthDays} :
        ValidDate(dt)}

LastDay == MkDate(FirstYear + YearSpan - 1, 12, 31)

(***************************************************************************)
(* Age classifier                                                          *)
(***************************************************************************)
AgeGroups ==
    <<"Mini", "U-09", "U-11", "U-13", "U-15", "U-17", "U-19", "U-21", "Seniors">>

\* calculateAge with the birthday adjustment applied in the wrong direction
calculateAge_signSlip(dateOfBirth) ==
    LET birthDate == LocalFields(dateOfBirth)
        age == today.y - birthDate.y
        monthDiff == (today.m - 1) - (birthDate.m - 1)
    IN  IF monthDiff < 0 \/ (monthDiff = 0 /\ today.d < birthDate.d)
        THEN age + 1
        ELSE age

\* src/db/schema/players.ts: calculateAge
calculateAge(dateOfBirth) ==
    LET birthDate == LocalFields(dateOfBirth)
        age == today.y - birthDate.y
        monthDiff == (today.m - 1) - (birthDate.m - 1)
    IN  IF monthDiff < 0 \/ (monthDiff = 0 /\ today.d < birthDate.d)
        THEN age - 1
        ELSE age

\* getAgeGroup with the labels of two neighbouring brackets exchanged
getAgeGroup_swapped(dateOfBirth) ==
    LET age == calculateAge(dateOfBirth)
    IN  IF age <= 7 THEN "Mini"
        ELSE IF age <= 9 THEN "U-09"
        ELSE IF age <= 11 THEN "U-11"
        ELSE IF age <= 13 THEN "U-13"
        ELSE IF age <= 15 THEN "U-15"
        ELSE IF age <= 17 THEN "U-19"
        ELSE IF age <= 19 THEN "U-17"
        ELSE IF age <= 21 THEN "U-21"
        ELSE "Seniors"

\* src/db/schema/players.ts: getAgeGroup (inclusive upper bounds)
getAgeGroup(dateOfBirth) ==
    LET age == calculateAge(dateOfBirth)
    IN  IF age <= 7 THEN "Mini"
        ELSE IF age <= 9 THEN "U-09"
        ELSE IF age <= 11 THEN "U-11"
        ELSE IF age <= 13 THEN "U-13"
        ELSE IF age <= 15 THEN "U-15"
        ELSE IF age <= 17 THEN "U-17"
        ELSE IF age <= 19 THEN "U-19"
        ELSE IF age <= 21 THEN "U-21"
        ELSE "Seniors"

\* the earlier players.service revision: playersService.calculateAge
playersService_calculateAge(dateOfBirth) ==
    LET birthDate == LocalFields(dateOfBirth)
        age == today.y - birthDate.y
        monthDiff == (today.m - 1) - (birthDate.m - 1)
    IN  IF monthDiff < 0 \/ (monthDiff = 0 /\ today.d < birthDate.d)
        THEN age - 1
        ELSE age

\* the earlier players.service revision: playersService.getAgeGroup
\* (exclusive upper bounds)
playersService_getAgeGroup(dateOfBirth) ==
    LET age == playersService_calculateAge(dateOfBirth)
    IN  IF age < 7 THEN "Mini"
        ELSE IF age < 9 THEN "U-09"
        ELSE IF age < 11 THEN "U-11"
        ELSE IF age < 13 THEN "U-13"
        ELSE IF age < 15 THEN "U-15"
        ELSE IF age < 17 THEN "U-17"
        ELSE IF age < 19 THEN "U-19"
        ELSE IF age < 21 THEN "U-21"
        ELSE "Seniors"

\* The controller imports playersService from services/players.service; the
\* repository holds two revisions of it: one re-exports the schema functions
\* ("schema"), the other defines its own ("service").
ServiceRevs == {"schema", "service"}

service_calculateAge(rev, dateOfBirth) ==
    IF rev = "schema" THEN calculateAge(dateOfBirth)
    ELSE playersService_calculateAge(dateOfBirth)

service_getAgeGroup(rev, dateOfBirth) ==
    IF rev = "schema" THEN getAgeGroup(dateOfBirth)
    ELSE playersService_getAgeGroup(dateOfBirth)

(***************************************************************************)
(* Score aggregator                                                        *)
(***************************************************************************)
\* the sum with the forehand score left out
calculateTotalScore_noForehand(result) ==
    result.leftHandScore + result.rightHandScore + result.backhandScore

\* src/db/schema/test.ts: calculateTotalScore
calculateTotalScore(result) ==
    result.leftHandScore + result.rightHandScore
        + result.forehandScore + result.backhandScore

(***************************************************************************)
(* Storage collaborator                                                    *)
(***************************************************************************)
SeqToSet(s) == {s[i] : i \in 1..Len(s)}

\* ORDER BY created_at DESC: every order of the rows in which createdAt never
\* increases; rows with equal createdAt come in an order the database picks.
RECURSIVE OrderByCreatedAtDesc(_)
OrderByCreatedAtDesc(S) ==
    IF S = {} THEN {<<>>}
    ELSE UNION {{<<x>> \o rest : rest \in OrderByCreatedAtDesc(S \ {x})} :
                  x \in {y \in S : \A z \in S : y.createdAt >= z.createdAt}}

Insert(table, id, row) ==
    [x \in DOMAIN table \cup {id} |-> IF x = id THEN row ELSE table[x]]

Remove(table, id) == [x \in DOMAIN table \ {id} |-> table[x]]

(***************************************************************************)
(* Query predicates and pagination                                         *)
(***************************************************************************)
\* ILIKE '%q%': q occurs in name, letter case ignored (names and q are
\* sequences of lower-case letters here)
ilike(name, q) ==
    \E i \in 0..(Len(name) - Len(q)) : SubSeq(name, i + 1, i + Len(q)) = q

\* reduce() keeping only the condition pushed last
resultsConditions_lastOnly(r, playerId, testId, dateFrom, dateTo) ==
    IF dateTo # None THEN r.createdAt <= Val(dateTo)
    ELSE IF dateFrom # None THEN r.createdAt >= Val(dateFrom)
    ELSE IF testId # None THEN r.testId = Val(testId)
    ELSE IF playerId # None THEN r.playerId = Val(playerId)
    ELSE TRUE

\* and() over the conditions pushed for the parameters that are present
resultsConditions(r, playerId, testId, dateFrom, dateTo) ==
    /\ (playerId # None => r.playerId = Val(playerId))
    /\ (testId # None => r.testId = Val(testId))
    /\ (dateFrom # None => r.createdAt >= Val(dateFrom))
    /\ (dateTo # None => r.createdAt <= Val(dateTo))

testsConditions(t, q, playingTime, recoveryTime, dateFrom, dateTo) ==
    /\ (q # None => ilike(t.name, Val(q)))
    /\ (playingTime # None => t.playingTime = Val(playingTime))
    /\ (recoveryTime # None => t.recoveryTime = Val(recoveryTime))
    /\ (dateFrom # None => DateKey(t.dateConducted) >= DateKey(Val(dateFrom)))
    /\ (dateTo # None => DateKey(t.dateConducted) <= DateKey(Val(dateTo)))

playersConditions(pl, q, gender, preferredHand) ==
    /\ (q # None => ilike(pl.name, Val(q)))
    /\ (gender # None => pl.gender = Val(gender))
    /\ (preferredHand # None => pl.preferredHand = Val(preferredHand))

\* offset computed from the page after the requested one
pageOffset_nextPage(page, limit) == page * limit

\* const offset = (page - 1) * limit
pageOffset(page, limit) == (page - 1) * limit

\* .limit(limit).offset(offset) on an ordered result
LimitOffset(ordered, limit, offset) ==
    SubSeq(ordered, offset + 1,
           IF offset + limit < Len(ordered) THEN offset + limit ELSE Len(ordered))

\* types/pagination: the query schemas accept page >= 1 and limit >= 1
paginationSchema(page, limit) == page >= 1 /\ limit >= 1

\* types/pagination: createPaginatedResponse
createPaginatedResponse(items, page, limit, totalItems) ==
    [items |-> items, page |-> page, limit |-> limit,
     totalItems |-> totalItems,
     totalPages |-> (totalItems + limit - 1) \div limit]

\* services/results.service: calculateTotalScore
resultsService_calculateTotalScore(result) == calculateTotalScore(result)

\* services/tests.service: calculateTotalScore
testsService_calculateTotalScore(result) == calculateTotalScore(result)

\* services/results.service: isResultInScoreRange
resultsService_isResultInScoreRange(totalScore, minScore, maxScore) ==
    /\ (minScore # None => totalScore >= Val(minScore))
    /\ (maxScore # None => totalScore <= Val(maxScore))

\* the response with page and limit handed over in the wrong order
pageResponse_swapped(handler, query, items, page, limit, totalItems) ==
    [status |-> 200, kind |-> "page", handler |-> handler, query |-> query,
     body |-> createPaginatedResponse(items, limit, page, totalItems)]

\* res.status(200).json(createPaginatedResponse(items, page, limit, totalItems))
pageResponse(handler, query, items, page, limit, totalItems) ==
    [status |-> 200, kind |-> "page", handler |-> handler, query |-> query,
     body |-> createPaginatedResponse(items, page, limit, totalItems)]

\* the score filter left out
scoreRangeFilter_dropped(rows, minScore, maxScore) == rows

\* the filter applied only when a minimum is given
scoreRangeFilter_minOnly(rows, minScore, maxScore) ==
    IF minScore # None
    THEN SelectSeq(rows,
            LAMBDA x : resultsService_isResultInScoreRange(
                           x.totalScore, minScore, maxScore))
    ELSE rows

\* "Filter by score range after calculation if specified"
scoreRangeFilter(rows, minScore, maxScore) ==
    IF minScore # None \/ maxScore # None
    THEN SelectSeq(rows,
            LAMBDA x : resultsService_isResultInScoreRange(
                           x.totalScore, minScore, maxScore))
    ELSE rows

TablePairs(table) == {[id |-> id, row |-> table[id]] : id \in DOMAIN table}

(***************************************************************************)
(* Players controller                                                      *)
(***************************************************************************)
\* playersCreateSchema.dateOfBirth: parseable and not in the future
playersCreateSchema(dateOfBirth, late) ==
    ValidDate(dateOfBirth) /\ NotInFuture(dateOfBirth, late)

PlayerBody(rev, id, row) ==
    [id |-> id,
     dateOfBirth |-> row.dateOfBirth,
     age |-> service_calculateAge(rev, row.dateOfBirth),
     ageGroup |-> service_getAgeGroup(rev, row.dateOfBirth)]

\* resultsWithTotal of playersController.findById
PlayerResultsWithTotal(ordered) ==
    [i \in 1..Len(ordered) |->
        [id |-> ordered[i].id,
         leftHandScore |-> ordered[i].leftHandScore,
         rightHandScore |-> ordered[i].rightHandScore,
         forehandScore |-> ordered[i].forehandScore,
         backhandScore |-> ordered[i].backhandScore,
         createdAt |-> ordered[i].createdAt,
         totalScore |-> calculateTotalScore(ordered[i])]]

\* the revisions of the create and update schemas: the one kept in
\* services/players.service and the one in types/players.schemas
SchemaRevs == {"service", "types"}

\* types/players.schemas: dateOfBirth: z.string().date()
playersCreateSchema_types(dateOfBirth) == ValidDate(dateOfBirth)

playersCreateSchemaOf(schemaRev, dateOfBirth, late) ==
    IF schemaRev = "service" THEN playersCreateSchema(dateOfBirth, late)
    ELSE playersCreateSchema_types(dateOfBirth)

\* playersUpdateSchema: every field optional; the service revision refines
\* dateOfBirth as on create and wants at least one field
playersUpdateSchemaOf(schemaRev, updateData, late) ==
    IF schemaRev = "service"
    THEN /\ (updateData.dateOfBirth # None =>
                playersCreateSchema(Val(updateData.dateOfBirth), late))
         /\ (updateData.dateOfBirth # None \/ updateData.gender # None)
    ELSE updateData.dateOfBirth # None =>
             playersCreateSchema_types(Val(updateData.dateOfBirth))

playersController_createWith(schemaRev, rev, id, name, dateOfBirth, gender, preferredHand, late) ==
    /\ id \notin DOMAIN players
    /\ IF ~playersCreateSchemaOf(schemaRev, dateOfBirth, late)
       THEN /\ resp' = [status |-> 400, kind |-> "validation"]
            /\ UNCHANGED <<players, now>>
       ELSE LET row == [name |-> name, dateOfBirth |-> dateOfBirth,
                        gender |-> gender, preferredHand |-> preferredHand,
                        createdAt |-> now, updatedAt |-> now]
            IN  /\ players' = Insert(players, id, row)
                /\ resp' = [status |-> 201, kind |-> "player", service |-> rev,
                            body |-> PlayerBody(rev, id, row),
                            testResults |-> <<>>]
                /\ now' = now + 1
    /\ UNCHANGED <<today, tz, tests, results>>

\* playersController.create with the schema of services/players.service
playersController_create(rev, id, name, dateOfBirth, gender, preferredHand, late) ==
    playersController_createWith("service", rev, id, name, dateOfBirth,
                                 gender, preferredHand, late)

\* ON DELETE CASCADE of test_results.player_id
results_cascadePlayer(id) == SelectSeq(results, LAMBDA r : r.playerId # id)

\* ON DELETE CASCADE of test_results.test_id
results_cascadeTest(id) == SelectSeq(results, LAMBDA r : r.testId # id)

\* playersController.update: `.set(updateData)`; an empty updateData makes
\* the query builder throw, which the catch block answers with 500
playersController_update(schemaRev, rev, id, updateData, late) ==
    /\ IF ~playersUpdateSchemaOf(schemaRev, updateData, late)
       THEN /\ resp' = [status |-> 400, kind |-> "validation"]
            /\ UNCHANGED players
       ELSE IF id \notin DOMAIN players
       THEN /\ resp' = [status |-> 404, kind |-> "notfound"]
            /\ UNCHANGED players
       ELSE IF updateData.dateOfBirth = None /\ updateData.gender = None
       THEN /\ resp' = [status |-> 500, kind |-> "error"]
            /\ UNCHANGED players
       ELSE LET row == [players[id] EXCEPT
                          !.dateOfBirth = IF updateData.dateOfBirth # None
                                          THEN Val(updateData.dateOfBirth) ELSE @,
                          !.gender = IF updateData.gender # None
                                     THEN Val(updateData.gender) ELSE @]
            IN  /\ players' = [players EXCEPT ![id] = row]
                /\ resp' = [status |-> 200, kind |-> "player", service |-> rev,
                            body |-> PlayerBody(rev, id, row),
                            testResults |-> <<>>]
    /\ UNCHANGED <<today, tz, tests, results, now>>

\* a delete under a foreign key that does not cascade to the results
playersController_delete_noCascade(id) ==
    /\ IF id \notin DOMAIN players
       THEN /\ resp' = [status |-> 404, kind |-> "notfound"]
            /\ UNCHANGED players
       ELSE /\ players' = Remove(players, id)
            /\ resp' = [status |-> 204, kind |-> "empty"]
    /\ UNCHANGED <<today, tz, tests, results, now>>

\* playersController.delete: the results of the player go with the player
playersController_delete(id) ==
    /\ IF id \notin DOMAIN players
       THEN /\ resp' = [status |-> 404, kind |-> "notfound"]
            /\ UNCHANGED <<players, results>>
       ELSE /\ players' = Remove(players, id)
            /\ results' = results_cascadePlayer(id)
            /\ resp' = [status |-> 204, kind |-> "empty"]
    /\ UNCHANGED <<today, tz, tests, now>>

\* a detail whose results query has no where clause
playersController_findById_allResults(rev, id) ==
    /\ IF id \notin DOMAIN players
       THEN resp' = [status |-> 404, kind |-> "notfound"]
       ELSE \E ordered \in OrderByCreatedAtDesc(SeqToSet(results)) :
                resp' = [status |-> 200, kind |-> "player", service |-> rev,
                         body |-> PlayerBody(rev, id, players[id]),
                         testResults |-> PlayerResultsWithTotal(ordered)]
    /\ UNCHANGED <<today, tz, players, tests, results, now>>

playersController_findById(rev, id) ==
    /\ IF id \notin DOMAIN players
       THEN resp' = [status |-> 404, kind |-> "notfound"]
       ELSE \E ordered \in OrderByCreatedAtDesc(
                               {r \in SeqToSet(results) : r.playerId = id}) :
                resp' = [status |-> 200, kind |-> "player", service |-> rev,
                         body |-> PlayerBody(rev, id, players[id]),
                         testResults |-> PlayerResultsWithTotal(ordered)]
    /\ UNCHANGED <<today, tz, players, tests, results, now>>

\* .limit(100)
PlayersLimit_doubled == 2 * 50

PlayersLimit == 50

\* playersController.findAll: no page or limit is read (the query schema
\* drops unknown keys); the answer is a bare array
playersController_findAll(rev, q, gender, ageGroup, preferredHand, page, limit, dbOk) ==
    /\ IF ~dbOk
       THEN resp' = [status |-> 500, kind |-> "error"]
       ELSE \E ordered \in OrderByCreatedAtDesc(
                    {[id |-> pr.id, createdAt |-> pr.row.createdAt,
                      dateOfBirth |-> pr.row.dateOfBirth] :
                        pr \in {x \in TablePairs(players) :
                            playersConditions(x.row, q, gender, preferredHand)}}
                    ) :
              LET result == LimitOffset(ordered, PlayersLimit, 0)
                  playersWithAge ==
                      [i \in 1..Len(result) |->
                          [id |-> result[i].id,
                           createdAt |-> result[i].createdAt,
                           age |-> service_calculateAge(rev, result[i].dateOfBirth),
                           ageGroup |-> service_getAgeGroup(rev, result[i].dateOfBirth)]]
                  filteredPlayers ==
                      IF ageGroup # None
                      THEN SelectSeq(playersWithAge, LAMBDA pl : pl.ageGroup = Val(ageGroup))
                      ELSE playersWithAge
              IN  resp' = [status |-> 200, kind |-> "array", handler |-> "players",
                           query |-> [q |-> q, gender |-> gender,
                                      preferredHand |-> preferredHand,
                                      page |-> page, limit |-> limit,
                                      ageGroup |-> ageGroup],
                           items |-> filteredPlayers]
    /\ UNCHANGED <<today, tz, players, tests, results, now>>

(***************************************************************************)
(* Tests controller                                                        *)
(***************************************************************************)
TestItem(pr) ==
    [id |-> pr.id, name |-> pr.row.name, playingTime |-> pr.row.playingTime,
     recoveryTime |-> pr.row.recoveryTime,
     dateConducted |-> pr.row.dateConducted, createdAt |-> pr.row.createdAt]

testsController_findAll(q, playingTime, recoveryTime, dateFrom, dateTo, page, limit, dbOk) ==
    /\ IF ~paginationSchema(page, limit)
       THEN resp' = [status |-> 400, kind |-> "validation", handler |-> "tests",
                     query |-> [page |-> page, limit |-> limit]]
       ELSE IF ~dbOk
       THEN resp' = [status |-> 500, kind |-> "error"]
       ELSE LET offset == pageOffset(page, limit)
                matching == {pr \in TablePairs(tests) :
                                testsConditions(pr.row, q, playingTime,
                                                recoveryTime, dateFrom, dateTo)}
                totalItems == Cardinality(matching)
            IN  \E ordered \in OrderByCreatedAtDesc(
                        {TestItem(pr) : pr \in matching}) :
                  resp' = pageResponse("tests",
                              [q |-> q, playingTime |-> playingTime,
                               recoveryTime |-> recoveryTime,
                               dateFrom |-> dateFrom, dateTo |-> dateTo,
                               page |-> page, limit |-> limit],
                              LimitOffset(ordered, limit, offset),
                              page, limit, totalItems)
    /\ UNCHANGED <<today, tz, players, tests, results, now>>

testsController_create(id, name, playingTime, recoveryTime, dateConducted) ==
    /\ id \notin DOMAIN tests
    /\ LET row == [name |-> name, playingTime |-> playingTime,
                   recoveryTime |-> recoveryTime,
                   dateConducted |-> dateConducted,
                   createdAt |-> now, updatedAt |-> now]
       IN  /\ tests' = Insert(tests, id, row)
           /\ resp' = [status |-> 201, kind |-> "test",
                       body |-> TestItem([id |-> id, row |-> row])]
    /\ now' = now + 1
    /\ UNCHANGED <<today, tz, players, results>>

\* testsController.update: updateData holds the playingTime, if given
testsController_update(id, updateData) ==
    /\ IF id \notin DOMAIN tests
       THEN /\ resp' = [status |-> 404, kind |-> "notfound"]
            /\ UNCHANGED <<tests, now>>
       ELSE LET row == [tests[id] EXCEPT
                          !.playingTime = IF updateData.playingTime # None
                                          THEN Val(updateData.playingTime) ELSE @,
                          !.updatedAt = now]
            IN  /\ tests' = [tests EXCEPT ![id] = row]
                /\ resp' = [status |-> 200, kind |-> "test",
                            body |-> TestItem([id |-> id, row |-> row])]
                /\ now' = now + 1
    /\ UNCHANGED <<today, tz, players, results>>

\* testsController.delete: the results of the test go with the test
testsController_delete(id) ==
    /\ IF id \notin DOMAIN tests
       THEN /\ resp' = [status |-> 404, kind |-> "notfound"]
            /\ UNCHANGED <<tests, results>>
       ELSE /\ tests' = Remove(tests, id)
            /\ results' = results_cascadeTest(id)
            /\ resp' = [status |-> 204, kind |-> "empty"]
    /\ UNCHANGED <<today, tz, players, now>>

\* testsController.findById: the test with the results that reference it
testsController_findById(id) ==
    /\ IF id \notin DOMAIN tests
       THEN resp' = [status |-> 404, kind |-> "notfound"]
       ELSE \E ordered \in OrderByCreatedAtDesc(
                               {r \in SeqToSet(results) : r.testId = id}) :
              resp' = [status |-> 200, kind |-> "testDetail",
                       body |-> TestItem([id |-> id, row |-> tests[id]]),
                       testResults |->
                           [i \in 1..Len(ordered) |->
                               [id |-> ordered[i].id,
                                leftHandScore |-> ordered[i].leftHandScore,
                                rightHandScore |-> ordered[i].rightHandScore,
                                forehandScore |-> ordered[i].forehandScore,
                                backhandScore |-> ordered[i].backhandScore,
                                createdAt |-> ordered[i].createdAt,
                                totalScore |->
                                    testsService_calculateTotalScore(ordered[i])]]]
    /\ UNCHANGED <<today, tz, players, tests, results, now>>

(***************************************************************************)
(* Results controller                                                      *)
(***************************************************************************)
\* a row with its calculated fields, as every results handler builds it
ResultWithCalculatedFields(r) ==
    [id |-> r.id, playerId |-> r.playerId, testId |-> r.testId,
     leftHandScore |-> r.leftHandScore, rightHandScore |-> r.rightHandScore,
     forehandScore |-> r.forehandScore, backhandScore |-> r.backhandScore,
     createdAt |-> r.createdAt,
     totalScore |-> resultsService_calculateTotalScore(r)]

MapCalculated(rows) ==
    [i \in 1..Len(rows) |-> ResultWithCalculatedFields(rows[i])]

\* resultsController.findAll
resultsController_findAll(playerId, testId, minScore, maxScore, dateFrom, dateTo, page, limit, dbOk) ==
    /\ IF ~paginationSchema(page, limit)
       THEN resp' = [status |-> 400, kind |-> "validation", handler |-> "results",
                     query |-> [page |-> page, limit |-> limit]]
       ELSE IF ~dbOk
       THEN resp' = [status |-> 500, kind |-> "error"]
       ELSE LET offset == pageOffset(page, limit)
                matching == {r \in SeqToSet(results) :
                                resultsConditions(r, playerId, testId, dateFrom, dateTo)}
                totalItems == Cardinality(matching)
            IN  \E ordered \in OrderByCreatedAtDesc(matching) :
                  LET dataResult == LimitOffset(ordered, limit, offset)
                      resultsWithCalculatedFields == MapCalculated(dataResult)
                  IN  resp' = pageResponse("results",
                                  [playerId |-> playerId, testId |-> testId,
                                   minScore |-> minScore, maxScore |-> maxScore,
                                   dateFrom |-> dateFrom, dateTo |-> dateTo,
                                   page |-> page, limit |-> limit],
                                  scoreRangeFilter(resultsWithCalculatedFields,
                                                   minScore, maxScore),
                                  page, limit, totalItems)
    /\ UNCHANGED <<today, tz, players, tests, results, now>>

resultsController_findById(id) ==
    /\ IF \A r \in SeqToSet(results) : r.id # id
       THEN resp' = [status |-> 404, kind |-> "notfound"]
       ELSE LET row == CHOOSE r \in SeqToSet(results) : r.id = id
            IN  resp' = [status |-> 200, kind |-> "result",
                         body |-> ResultWithCalculatedFields(row)]
    /\ UNCHANGED <<today, tz, players, tests, results, now>>

\* a row that keeps its total next to the sub-scores
NewResult_withTotal(id, entry) ==
    [id |-> id, playerId |-> entry.playerId, testId |-> entry.testId,
     leftHandScore |-> entry.leftHandScore, rightHandScore |-> entry.rightHandScore,
     forehandScore |-> entry.forehandScore, backhandScore |-> entry.backhandScore,
     totalScore |-> entry.leftHandScore + entry.rightHandScore
                        + entry.forehandScore + entry.backhandScore,
     createdAt |-> now, updatedAt |-> now]

NewResult(id, entry) ==
    [id |-> id, playerId |-> entry.playerId, testId |-> entry.testId,
     leftHandScore |-> entry.leftHandScore, rightHandScore |-> entry.rightHandScore,
     forehandScore |-> entry.forehandScore, backhandScore |-> entry.backhandScore,
     createdAt |-> now, updatedAt |-> now]

\* a create that looks up the player only
resultsController_create_playerOnly(entry) ==
    /\ IF entry.playerId \notin DOMAIN players
       THEN /\ resp' = [status |-> 404, kind |-> "notfound"]
            /\ UNCHANGED <<results, now>>
       ELSE LET row == NewResult(<<now, 1>>, entry)
            IN  /\ results' = Append(results, row)
                /\ resp' = [status |-> 201, kind |-> "result",
                            body |-> ResultWithCalculatedFields(row)]
                /\ now' = now + 1
    /\ UNCHANGED <<today, tz, players, tests>>

\* resultsController.create: the player and the test are looked up first
resultsController_create(entry) ==
    /\ IF entry.playerId \notin DOMAIN players
       THEN /\ resp' = [status |-> 404, kind |-> "notfound"]
            /\ UNCHANGED <<results, now>>
       ELSE IF entry.testId \notin DOMAIN tests
       THEN /\ resp' = [status |-> 404, kind |-> "notfound"]
            /\ UNCHANGED <<results, now>>
       ELSE LET row == NewResult(<<now, 1>>, entry)
            IN  /\ results' = Append(results, row)
                /\ resp' = [status |-> 201, kind |-> "result",
                            body |-> ResultWithCalculatedFields(row)]
                /\ now' = now + 1
    /\ UNCHANGED <<today, tz, players, tests>>

\* resultsController.createBulk: one INSERT of all entries; the lookups made
\* before it are not consulted, so a missing player or test surfaces as the
\* foreign-key error of the INSERT (caught: 500, nothing inserted)
resultsController_createBulk(entries) ==
    /\ IF \E i \in 1..Len(entries) :
            \/ entries[i].playerId \notin DOMAIN players
            \/ entries[i].testId \notin DOMAIN tests
       THEN /\ resp' = [status |-> 500, kind |-> "error"]
            /\ UNCHANGED <<results, now>>
       ELSE LET rows == [i \in 1..Len(entries) |-> NewResult(<<now, i>>, entries[i])]
            IN  /\ results' = results \o rows
                /\ resp' = [status |-> 201, kind |-> "bulk",
                            items |-> MapCalculated(rows)]
                /\ now' = now + 1
    /\ UNCHANGED <<today, tz, players, tests>>

\* resultsController.update: updateData holds the sub-scores that are given
resultsController_update(id, updateData) ==
    /\ IF \A r \in SeqToSet(results) : r.id # id
       THEN /\ resp' = [status |-> 404, kind |-> "notfound"]
            /\ UNCHANGED <<results, now>>
       ELSE LET Upd(r) ==
                    [r EXCEPT
                       !.leftHandScore = IF updateData.leftHandScore # None
                                         THEN Val(updateData.leftHandScore) ELSE @,
                       !.rightHandScore = IF updateData.rightHandScore # None
                                          THEN Val(updateData.rightHandScore) ELSE @,
                       !.forehandScore = IF updateData.forehandScore # None
                                         THEN Val(updateData.forehandScore) ELSE @,
                       !.backhandScore = IF updateData.backhandScore # None
                                         THEN Val(updateData.backhandScore) ELSE @,
                       !.updatedAt = now]
                updated == [i \in 1..Len(results) |->
                               IF results[i].id = id THEN Upd(results[i])
                               ELSE results[i]]
            IN  /\ results' = updated
                /\ resp' = [status |-> 200, kind |-> "result",
                            body |-> ResultWithCalculatedFields(
                                CHOOSE r \in SeqToSet(updated) : r.id = id)]
                /\ now' = now + 1
    /\ UNCHANGED <<today, tz, players, tests>>

\* a delete that issues its statement without looking the row up
resultsController_delete_unchecked(id) ==
    /\ results' = SelectSeq(results, LAMBDA r : r.id # id)
    /\ resp' = [status |-> 204, kind |-> "empty"]
    /\ UNCHANGED <<today, tz, players, tests, now>>

resultsController_delete(id) ==
    /\ IF \A r \in SeqToSet(results) : r.id # id
       THEN /\ resp' = [status |-> 404, kind |-> "notfound"]
            /\ UNCHANGED results
       ELSE /\ results' = SelectSeq(results, LAMBDA r : r.id # id)
            /\ resp' = [status |-> 204, kind |-> "empty"]
    /\ UNCHANGED <<today, tz, players, tests, now>>

\* the process clock passes midnight
Tick ==
    /\ today # LastDay
    /\ today' = NextDay(today)
    /\ UNCHANGED <<tz, players, tests, results, now, resp, inflight>>

InitAge ==
    /\ today = MkDate(FirstYear, 1, 1)
    /\ tz \in TimeZones
    /\ players = <<>>
    /\ tests = <<>>
    /\ results = <<>>
    /\ now = 0
    /\ resp = NoResp
    /\ inflight = NoInflight

NextAge ==
    \/ \E rev \in ServiceRevs, id \in AgeSpecIds, d \in BirthDates, late \in BOOLEAN :
          /\ playersController_create(rev, id, <<"a">>, d, "male", "right", late)
          /\ UNCHANGED inflight
    \/ \E rev \in ServiceRevs, id \in AgeSpecIds :
          /\ playersController_findById(rev, id)
          /\ UNCHANGED inflight
    \/ Tick

SpecAge == InitAge /\ [][NextAge]_vars

(***************************************************************************)
(* The listing specification: rows are created through the handlers and    *)
(* listed with page, limit and filters                                     *)
(***************************************************************************)
\* Scenario bounds: the two players and then the tests are registered before
\* the first result is recorded.
Entry(pid, tid, sc) ==
    [playerId |-> pid, testId |-> tid,
     leftHandScore |-> sc[1], rightHandScore |-> sc[2],
     forehandScore |-> sc[3], backhandScore |-> sc[4]]

HighScores == <<10, 8, 7, 5>>
LowScores == <<1, 0, 2, 0>>

ValidEntries ==
    {Entry(ListPlayerPool[1], ListTestPool[1], HighScores),
     Entry(ListPlayerPool[1], ListTestPool[1], LowScores),
     Entry(ListPlayerPool[2], ListTestPool[1], HighScores)}

Entries ==
    ValidEntries \cup {Entry(MissingId, ListTestPool[1], LowScores),
                       Entry(ListPlayerPool[1], MissingId, LowScores)}

\* (playerId, minScore, maxScore) of the results listings requested
ResultsQueries ==
    {<<None, None, None>>, <<{ListPlayerPool[1]}, None, None>>,
     <<None, {10}, None>>, <<None, None, {10}>>,
     <<{ListPlayerPool[1]}, {10}, None>>}

\* pages up to one beyond the last page any listing can have
Pages == 1..(MaxResults + 1)

\* (page, limit) sent to the players listing
PlayersPaging == {<<1, 1>>, <<2, 1>>, <<2, MaxLimit>>}

ResultIds == {r.id : r \in SeqToSet(results)}

\* an id no result row has
MissingResultId == <<0, 1>>

InitList ==
    /\ today = MkDate(FirstYear, 6, 1)
    /\ tz = "utc"
    /\ players = <<>>
    /\ tests = <<>>
    /\ results = <<>>
    /\ now = 1
    /\ resp = NoResp
    /\ inflight = NoInflight

RegisterPlayer ==
    /\ tests = <<>>
    /\ Cardinality(DOMAIN players) < Len(ListPlayerPool)
    /\ playersController_create("schema",
           ListPlayerPool[Cardinality(DOMAIN players) + 1], <<"a">>,
           MkDate(FirstYear - 9, 6, 1), "male", "right", FALSE)

RegisterTest ==
    /\ results = <<>>
    /\ Cardinality(DOMAIN players) = Len(ListPlayerPool)
    /\ Cardinality(DOMAIN tests) < Len(ListTestPool)
    /\ testsController_create(ListTestPool[Cardinality(DOMAIN tests) + 1],
           <<"a">>, 30, 30, MkDate(FirstYear, 1, 1))

CreateResult ==
    /\ Len(results) < MaxResults
    /\ \E entry \in Entries : resultsController_create(entry)

CreateBulk ==
    \E n \in BulkSizes :
        /\ Len(results) + n <= MaxResults
        /\ \E entries \in [1..n -> ValidEntries] \cup {<<Entry(MissingId, MissingId, LowScores)>>} :
              resultsController_createBulk(entries)

ListResults ==
    \E qy \in ResultsQueries, page \in Pages, limit \in 1..MaxLimit :
        resultsController_findAll(qy[1], None, qy[2], qy[3], None, None,
                                  page, limit, TRUE)

ListTests ==
    \E page \in Pages, limit \in 1..MaxLimit :
        testsController_findAll(None, None, None, None, None, page, limit, TRUE)

\* a listing with page or limit below 1, and a listing whose query fails
ListInvalidOrFailing ==
    \/ \E pl \in {<<0, 1>>, <<1, 0>>} :
          \/ resultsController_findAll(None, None, None, None, None, None,
                                       pl[1], pl[2], TRUE)
          \/ testsController_findAll(None, None, None, None, None,
                                     pl[1], pl[2], TRUE)
    \/ resultsController_findAll(None, None, None, None, None, None, 1, 1, FALSE)
    \/ testsController_findAll(None, None, None, None, None, 1, 1, FALSE)
    \/ playersController_findAll("schema", None, None, None, None, 1, 1, FALSE)

ListPlayers ==
    \E pl \in PlayersPaging :
        playersController_findAll("schema", None, None, None, None,
                                  pl[1], pl[2], TRUE)

\* the sub-scores sent with an update: two of them, or none
UpdateBodies ==
    {[leftHandScore |-> {3}, rightHandScore |-> None,
      forehandScore |-> None, backhandScore |-> {0}],
     [leftHandScore |-> None, rightHandScore |-> None,
      forehandScore |-> None, backhandScore |-> None]}

\* scenario bound: one update, of a row that was never updated
UpdateResult ==
    /\ \A r \in SeqToSet(results) : r.updatedAt = r.createdAt
    /\ \E id \in ResultIds \cup {MissingResultId}, updateData \in UpdateBodies :
          resultsController_update(id, updateData)

ReadResult ==
    \E id \in ResultIds \cup {MissingResultId} : resultsController_findById(id)

ReadTest ==
    \E id \in SeqToSet(ListTestPool) \cup {MissingId} : testsController_findById(id)

ReadPlayer ==
    \E id \in SeqToSet(ListPlayerPool) \cup {MissingId} :
        playersController_findById("schema", id)

\* the client takes the response; the next request is served after that
Deliver ==
    /\ resp # NoResp
    /\ resp' = NoResp
    /\ inflight' = NoInflight
    /\ UNCHANGED <<today, tz, players, tests, results, now>>

\* a request is handled to its response in one step
Serve(Handler) ==
    /\ resp = NoResp
    /\ inflight = NoInflight
    /\ Handler
    /\ UNCHANGED inflight

NextList ==
    \/ Serve(RegisterPlayer)
    \/ Serve(RegisterTest)
    \/ Serve(CreateResult)
    \/ Serve(CreateBulk)
    \/ Serve(ListResults)
    \/ Serve(ListTests)
    \/ Serve(ListPlayers)
    \/ Serve(ListInvalidOrFailing)
    \/ Serve(UpdateResult)
    \/ Serve(ReadResult)
    \/ Serve(ReadTest)
    \/ Serve(ReadPlayer)
    \/ Deliver

SpecList == InitList /\ [][NextList]_vars

(***************************************************************************)
(* The roster specification: a club with about as many players as one      *)
(* players listing returns                                                 *)
(***************************************************************************)
MaxNewPlayers == 2

\* the players registered so far, numbered in the order of their creation:
\* every tenth is female, the odd ones are 9 years old and the even ones 12
RosterSize == 49

RosterRow(i) ==
    [name |-> <<"a">>,
     dateOfBirth |-> MkDate(FirstYear - (IF i % 2 = 1 THEN 9 ELSE 12), 6, 1),
     gender |-> IF i % 10 = 0 THEN "female" ELSE "male",
     preferredHand |-> "right",
     createdAt |-> i, updatedAt |-> i]

InitRoster ==
    /\ today = MkDate(FirstYear, 6, 1)
    /\ tz = "utc"
    /\ players = [i \in 1..RosterSize |-> RosterRow(i)]
    /\ tests = <<>>
    /\ results = <<>>
    /\ now = RosterSize + 1
    /\ resp = NoResp
    /\ inflight = NoInflight

JoinClub ==
    /\ now <= RosterSize + MaxNewPlayers
    /\ \E gender \in {"male", "female"}, age \in {9, 12} :
          playersController_create("schema", now, <<"a">>,
              MkDate(FirstYear - age, 6, 1), gender, "right", FALSE)

ListRoster ==
    \E gender \in {None, {"male"}}, ageGroup \in {None, {"U-09"}, {"U-13"}} :
        playersController_findAll("schema", None, gender, ageGroup, None, 1, 1, TRUE)

NextRoster ==
    \/ Serve(JoinClub)
    \/ Serve(ListRoster)
    \/ Deliver

SpecRoster == InitRoster /\ [][NextRoster]_vars

\* the rows a listing was asked for: those that satisfy the
\* predicates pushed to storage, as the listing presents them
Matching(r) ==
    IF r.handler = "tests"
    THEN {TestItem(pr) : pr \in {x \in TablePairs(tests) :
              testsConditions(x.row, r.query.q, r.query.playingTime,
                              r.query.recoveryTime, r.query.dateFrom,
                              r.query.dateTo)}}
    ELSE {ResultWithCalculatedFields(x) : x \in {y \in SeqToSet(results) :
              resultsConditions(y, r.query.playerId, r.query.testId,
                                r.query.dateFrom, r.query.dateTo)}}

(***************************************************************************)
(* The await specification: a tests or results listing taken step by step, *)
(* its count query and its data query settling in either order             *)
(***************************************************************************)
\* only the data query awaited
promiseAll_dataOnly(countPromise, dataPromise) == dataPromise.state

\* Promise.all([countQuery, dataQuery]): rejected as soon as one of the two
\* is rejected, fulfilled when both are fulfilled, pending otherwise
promiseAll(countPromise, dataPromise) ==
    IF countPromise.state = "rejected" \/ dataPromise.state = "rejected"
    THEN "rejected"
    ELSE IF countPromise.state = "fulfilled" /\ dataPromise.state = "fulfilled"
    THEN "fulfilled"
    ELSE "pending"

\* findAll up to the call of Promise.all: the query is parsed, the two
\* queries are built and started
findAll_start(handler, query) ==
    /\ resp = NoResp
    /\ inflight = NoInflight
    /\ paginationSchema(query.page, query.limit)
    /\ inflight' = [handler |-> handler, query |-> query,
                    countQuery |-> [state |-> "pending", value |-> 0],
                    dataQuery |-> [state |-> "pending", value |-> <<>>,
                                   matched |-> 0],
                    responded |-> FALSE]
    /\ UNCHANGED <<today, tz, players, tests, results, now, resp>>

\* the count query is answered by the database, or fails
countQuery_settles(ok) ==
    /\ inflight.handler # "none"
    /\ inflight.countQuery.state = "pending"
    /\ inflight' = [inflight EXCEPT !.countQuery =
          IF ok THEN [state |-> "fulfilled",
                      value |-> Cardinality(Matching(inflight))]
          ELSE [state |-> "rejected", value |-> 0]]
    /\ UNCHANGED <<today, tz, players, tests, results, now, resp>>

\* the data query is answered by the database, or fails; `matched` keeps the
\* number of rows that matched the filter in the state the rows were read from
dataQuery_settles(ok) ==
    /\ inflight.handler # "none"
    /\ inflight.dataQuery.state = "pending"
    /\ \E ordered \in OrderByCreatedAtDesc(Matching(inflight)) :
          inflight' = [inflight EXCEPT !.dataQuery =
              IF ok THEN [state |-> "fulfilled",
                          value |-> LimitOffset(ordered, inflight.query.limit,
                              pageOffset(inflight.query.page, inflight.query.limit)),
                          matched |-> Cardinality(Matching(inflight))]
              ELSE [state |-> "rejected", value |-> <<>>, matched |-> 0]]
    /\ UNCHANGED <<today, tz, players, tests, results, now, resp>>

\* the continuation after `await Promise.all(...)`: the envelope, or the
\* catch block
findAll_resume ==
    /\ inflight.handler # "none"
    /\ ~inflight.responded
    /\ promiseAll(inflight.countQuery, inflight.dataQuery) # "pending"
    /\ resp' =
          IF promiseAll(inflight.countQuery, inflight.dataQuery) = "rejected"
          THEN [status |-> 500, kind |-> "error"]
          ELSE pageResponse(inflight.handler, inflight.query,
                   IF inflight.handler = "results"
                   THEN scoreRangeFilter(inflight.dataQuery.value,
                            inflight.query.minScore, inflight.query.maxScore)
                   ELSE inflight.dataQuery.value,
                   inflight.query.page, inflight.query.limit,
                   inflight.countQuery.value)
    /\ inflight' = [inflight EXCEPT !.responded = TRUE]
    /\ UNCHANGED <<today, tz, players, tests, results, now>>

AwaitQueries ==
    {[handler |-> "results", playerId |-> None, testId |-> None,
      minScore |-> minScore, maxScore |-> None, dateFrom |-> None,
      dateTo |-> None, page |-> page, limit |-> MaxLimit] :
        minScore \in {None, {10}}, page \in 1..2}
    \cup
    {[handler |-> "tests", q |-> None, playingTime |-> None,
      recoveryTime |-> None, dateFrom |-> None, dateTo |-> None,
      page |-> page, limit |-> 1] : page \in 1..2}

StartListing == \E query \in AwaitQueries : findAll_start(query.handler, query)

CountSettles == \E ok \in BOOLEAN : countQuery_settles(ok)

DataSettles == \E ok \in BOOLEAN : dataQuery_settles(ok)

NextAwait ==
    \/ Serve(RegisterPlayer)
    \/ Serve(RegisterTest)
    \/ Serve(CreateResult)
    \/ StartListing
    \/ CountSettles
    \/ DataSettles
    \/ findAll_resume
    \/ Deliver

SpecAwait == InitList /\ [][NextAwait]_vars

(***************************************************************************)
(* The filter specification: rows that differ in the filtered columns,     *)
(* listed with none, one or two filters                                    *)
(***************************************************************************)
\* Scenario: p1 and t1 are fixed, p2 and t2 vary; players come first, then
\* tests, then results.
FilterPlayer ==
    /\ tests = <<>>
    /\ \/ /\ DOMAIN players = {}
          /\ playersController_create("schema", ListPlayerPool[1], <<"a">>,
                 MkDate(FirstYear - 9, 6, 1), "male", "right", FALSE)
       \/ /\ DOMAIN players = {ListPlayerPool[1]}
          /\ \E gender \in {"male", "female"}, hand \in {"left", "right"} :
                playersController_create("schema", ListPlayerPool[2], <<"a">>,
                    MkDate(FirstYear - 9, 6, 1), gender, hand, FALSE)

FilterTest ==
    /\ results = <<>>
    /\ DOMAIN players = SeqToSet(ListPlayerPool)
    /\ \/ /\ DOMAIN tests = {}
          /\ testsController_create(ListTestPool[1], <<"a">>, 30, 30,
                                    MkDate(FirstYear, 1, 1))
       \/ /\ DOMAIN tests = {ListTestPool[1]}
          /\ \E name \in {<<"a">>, <<"a", "b">>}, playingTime \in {30, 60} :
                testsController_create(ListTestPool[2], name, playingTime, 30,
                                       MkDate(FirstYear, 1, 1))

FilterResult ==
    /\ Len(results) < MaxResults
    /\ DOMAIN tests = SeqToSet(ListTestPool)
    /\ \E pid \in SeqToSet(ListPlayerPool), tid \in SeqToSet(ListTestPool) :
          resultsController_create(Entry(pid, tid, HighScores))

FilterListResults ==
    \E playerId \in {None, {ListPlayerPool[1]}}, testId \in {None, {ListTestPool[1]}},
       dateFrom \in {None, {now - 1}}, dateTo \in {None, {now - 1}} :
        resultsController_findAll(playerId, testId, None, None, dateFrom, dateTo,
                                  1, MaxResults, TRUE)

FilterListTests ==
    \E q \in {None, {<<"b">>}}, playingTime \in {None, {30}},
       recoveryTime \in {None, {30}} :
        testsController_findAll(q, playingTime, recoveryTime, None, None,
                                1, MaxResults, TRUE)

FilterListPlayers ==
    \E q \in {None, {<<"a">>}}, gender \in {None, {"male"}},
       hand \in {None, {"right"}} :
        playersController_findAll("schema", q, gender, None, hand, 1, 1, TRUE)

NextFilter ==
    \/ Serve(FilterPlayer)
    \/ Serve(FilterTest)
    \/ Serve(FilterResult)
    \/ Serve(FilterListResults)
    \/ Serve(FilterListTests)
    \/ Serve(FilterListPlayers)
    \/ Deliver

SpecFilter == InitList /\ [][NextFilter]_vars

(***************************************************************************)
(* The store specification: players, tests and results are created,        *)
(* updated and deleted in any order; ids are clock readings, so that an id  *)
(* is never handed out twice                                               *)
(***************************************************************************)
\* bound on the clock: no row is created or stamped at or after this reading
MaxClock == 6

\* z.string().uuid(): the ids handed out are positive clock readings, 0 is a
\* well-formed id no row has, a negative id stands for a string that is no uuid
playersParamsSchema(id) == id >= 0

testsParamsSchema(id) == id >= 0

resultsParamsSchema(id) == id[1] >= 0

\* four non-negative integer sub-scores, and two uuids
resultsCreateSchema(entry) ==
    /\ entry.playerId >= 0
    /\ entry.testId >= 0
    /\ entry.leftHandScore >= 0
    /\ entry.rightHandScore >= 0
    /\ entry.forehandScore >= 0
    /\ entry.backhandScore >= 0

resultsBulkCreateSchema(entries) ==
    /\ Len(entries) >= 1
    /\ \A i \in 1..Len(entries) : resultsCreateSchema(entries[i])

resultsUpdateSchema(updateData) ==
    \A f \in DOMAIN updateData : updateData[f] # None => Val(updateData[f]) >= 0

testsUpdateSchema(updateData) ==
    updateData.playingTime # None => Val(updateData.playingTime) > 0

\* a handler that asks the database before it has looked at its input
Validated_queryFirst(paramsOk, bodyOk, dbOk, Handler) ==
    IF ~dbOk
    THEN /\ resp' = [status |-> 500, kind |-> "error"]
         /\ UNCHANGED <<today, tz, players, tests, results, now>>
    ELSE IF ~paramsOk \/ ~bodyOk
    THEN /\ resp' = [status |-> 400, kind |-> "validation"]
         /\ UNCHANGED <<today, tz, players, tests, results, now>>
    ELSE Handler

\* the frame every handler shares: safeParse of params and of body, each
\* answered with 400; then the try block with the queries, whose failure the
\* catch block answers with 500
Validated(paramsOk, bodyOk, dbOk, Handler) ==
    IF ~paramsOk \/ ~bodyOk
    THEN /\ resp' = [status |-> 400, kind |-> "validation"]
         /\ UNCHANGED <<today, tz, players, tests, results, now>>
    ELSE IF ~dbOk
    THEN /\ resp' = [status |-> 500, kind |-> "error"]
         /\ UNCHANGED <<today, tz, players, tests, results, now>>
    ELSE Handler

\* what the driver reports when the database cannot be reached
DbErrorMessage == "connect ECONNREFUSED 10.0.0.5:5432"

\* GET /health: SELECT 1, and the message of the error when it fails
healthRouter_get(dbOk) ==
    /\ resp' = IF dbOk
               THEN [status |-> 200, kind |-> "healthy"]
               ELSE [status |-> 503, kind |-> "unhealthy",
                     error |-> DbErrorMessage]
    /\ UNCHANGED <<today, tz, players, tests, results, now>>

Store == [players |-> players, tests |-> tests, results |-> results]

\* a request is handled to its response in one step; the request, the store
\* it met and the time it came at are kept until the response is taken
Handle(op, request, Handler) ==
    /\ resp = NoResp
    /\ inflight = NoInflight
    /\ Handler
    /\ inflight' = [handler |-> op, request |-> request, before |-> Store, at |-> now]

PastBirth == MkDate(FirstYear - 9, 6, 1)
FutureBirth == MkDate(FirstYear + 1, 1, 1)

\* ids asked for: the stored ones, a well-formed one no row has, a malformed one
PlayerIdsAsked == DOMAIN players \cup {0, -1}
TestIdsAsked == DOMAIN tests \cup {0, -1}
ResultIdsAsked == ResultIds \cup {MissingResultId, <<-1, 1>>}

\* ids asked to be deleted: also the ids handed out before, whose rows may be
\* gone by now
PlayerIdsDeleted == PlayerIdsAsked \cup 1..(now - 1)
TestIdsDeleted == TestIdsAsked \cup 1..(now - 1)
ResultIdsDeleted == ResultIdsAsked \cup {<<c, 1>> : c \in 1..(now - 1)}

NegativeScores == <<-1, 0, 0, 0>>

CrudEntries ==
    {Entry(pid, tid, sc) : pid \in PlayerIdsAsked, tid \in DOMAIN tests \cup {0},
                           sc \in {LowScores, NegativeScores}}

\* update bodies: empty, or a date of birth
PlayerUpdateBodies ==
    [dateOfBirth : {None, {PastBirth}, {FutureBirth}}, gender : {None}]

TestUpdateBodies == {[playingTime |-> pt] : pt \in {None, {45}, {0}}}

ResultUpdateBodies ==
    UpdateBodies \cup {[leftHandScore |-> {-1}, rightHandScore |-> None,
                        forehandScore |-> None, backhandScore |-> None]}

\* the rows two creates of players and one create of a test leave behind
SeedPlayer(i) ==
    [name |-> <<"a">>, dateOfBirth |-> PastBirth, gender |-> "male",
     preferredHand |-> "right", createdAt |-> i, updatedAt |-> i]

SeedTest(i) ==
    [name |-> <<"a">>, playingTime |-> 30, recoveryTime |-> 30,
     dateConducted |-> MkDate(FirstYear, 1, 1), createdAt |-> i, updatedAt |-> i]

\* the store after players 1 and 2 and test 3 were created, at readings 1 to 3
InitCrud ==
    /\ today = MkDate(FirstYear, 6, 1)
    /\ tz = "utc"
    /\ players = Insert(Insert(<<>>, 1, SeedPlayer(1)), 2, SeedPlayer(2))
    /\ tests = Insert(<<>>, 3, SeedTest(3))
    /\ results = <<>>
    /\ now = 4
    /\ resp = NoResp
    /\ inflight = NoInflight

\* scenario bounds: at most two players and one test at a time
CrudCreatePlayer ==
    /\ now < MaxClock
    /\ Cardinality(DOMAIN players) < 2
    /\ \E schemaRev \in SchemaRevs, dateOfBirth \in {PastBirth, FutureBirth}, dbOk \in BOOLEAN :
          Handle("players.create",
                 [schemaRev |-> schemaRev, dateOfBirth |-> dateOfBirth,
                  paramsOk |-> TRUE,
                  bodyOk |-> playersCreateSchemaOf(schemaRev, dateOfBirth, FALSE),
                  dbOk |-> dbOk],
                 Validated(TRUE, playersCreateSchemaOf(schemaRev, dateOfBirth, FALSE), dbOk,
                     playersController_createWith(schemaRev, "schema", now, <<"a">>,
                         dateOfBirth, "male", "right", FALSE)))

CrudUpdatePlayer ==
    \E schemaRev \in SchemaRevs, id \in PlayerIdsAsked, updateData \in PlayerUpdateBodies, dbOk \in BOOLEAN :
        Handle("players.update",
               [schemaRev |-> schemaRev, id |-> id, updateData |-> updateData,
                paramsOk |-> playersParamsSchema(id),
                bodyOk |-> playersUpdateSchemaOf(schemaRev, updateData, FALSE),
                dbOk |-> dbOk],
               Validated(playersParamsSchema(id),
                   playersUpdateSchemaOf(schemaRev, updateData, FALSE), dbOk,
                   playersController_update(schemaRev, "schema", id, updateData, FALSE)))

CrudDeletePlayer ==
    \E id \in PlayerIdsDeleted, dbOk \in BOOLEAN :
        Handle("players.delete",
               [id |-> id, paramsOk |-> playersParamsSchema(id), bodyOk |-> TRUE,
                dbOk |-> dbOk],
               Validated(playersParamsSchema(id), TRUE, dbOk,
                   playersController_delete(id)))

CrudReadPlayer ==
    \E id \in PlayerIdsAsked, dbOk \in BOOLEAN :
        Handle("players.findById",
               [id |-> id, paramsOk |-> playersParamsSchema(id), bodyOk |-> TRUE,
                dbOk |-> dbOk],
               Validated(playersParamsSchema(id), TRUE, dbOk,
                   playersController_findById("schema", id)))

CrudCreateTest ==
    /\ now < MaxClock
    /\ DOMAIN tests = {}
    /\ \E dbOk \in BOOLEAN :
          Handle("tests.create", [paramsOk |-> TRUE, bodyOk |-> TRUE, dbOk |-> dbOk],
                 Validated(TRUE, TRUE, dbOk,
                     testsController_create(now, <<"a">>, 30, 30,
                                            MkDate(FirstYear, 1, 1))))

CrudUpdateTest ==
    /\ now < MaxClock
    /\ \E id \in TestIdsAsked, updateData \in TestUpdateBodies, dbOk \in BOOLEAN :
          Handle("tests.update",
                 [id |-> id, updateData |-> updateData,
                  paramsOk |-> testsParamsSchema(id),
                  bodyOk |-> testsUpdateSchema(updateData), dbOk |-> dbOk],
                 Validated(testsParamsSchema(id), testsUpdateSchema(updateData), dbOk,
                     testsController_update(id, updateData)))

CrudDeleteTest ==
    \E id \in TestIdsDeleted, dbOk \in BOOLEAN :
        Handle("tests.delete",
               [id |-> id, paramsOk |-> testsParamsSchema(id), bodyOk |-> TRUE,
                dbOk |-> dbOk],
               Validated(testsParamsSchema(id), TRUE, dbOk,
                   testsController_delete(id)))

CrudCreateResult ==
    /\ now < MaxClock
    /\ Len(results) < MaxResults
    /\ \E entry \in CrudEntries, dbOk \in BOOLEAN :
          Handle("results.create",
                 [entries |-> <<entry>>, paramsOk |-> TRUE,
                  bodyOk |-> resultsCreateSchema(entry), dbOk |-> dbOk],
                 Validated(TRUE, resultsCreateSchema(entry), dbOk,
                     resultsController_create(entry)))

\* a bulk request of one or two entries; of two, the first has valid scores
CrudCreateBulk ==
    /\ now < MaxClock
    /\ \E n \in BulkSizes :
          /\ Len(results) + n <= MaxResults
          /\ \E entries \in {e \in [1..n -> CrudEntries] : n > 1 => resultsCreateSchema(e[1])}, dbOk \in BOOLEAN :
                Handle("results.createBulk",
                       [entries |-> entries, paramsOk |-> TRUE,
                        bodyOk |-> resultsBulkCreateSchema(entries), dbOk |-> dbOk],
                       Validated(TRUE, resultsBulkCreateSchema(entries), dbOk,
                           resultsController_createBulk(entries)))

CrudUpdateResult ==
    /\ now < MaxClock
    /\ \E id \in ResultIdsAsked, updateData \in ResultUpdateBodies, dbOk \in BOOLEAN :
          Handle("results.update",
                 [id |-> id, updateData |-> updateData,
                  paramsOk |-> resultsParamsSchema(id),
                  bodyOk |-> resultsUpdateSchema(updateData), dbOk |-> dbOk],
                 Validated(resultsParamsSchema(id), resultsUpdateSchema(updateData), dbOk,
                     resultsController_update(id, updateData)))

CrudDeleteResult ==
    \E id \in ResultIdsDeleted, dbOk \in BOOLEAN :
        Handle("results.delete",
               [id |-> id, paramsOk |-> resultsParamsSchema(id), bodyOk |-> TRUE,
                dbOk |-> dbOk],
               Validated(resultsParamsSchema(id), TRUE, dbOk,
                   resultsController_delete(id)))

CrudHealth ==
    /\ resp = NoResp
    /\ \E dbOk \in BOOLEAN :
          Handle("health", [paramsOk |-> TRUE, bodyOk |-> TRUE, dbOk |-> dbOk],
                 healthRouter_get(dbOk))

NextCrud ==
    \/ CrudCreatePlayer
    \/ CrudUpdatePlayer
    \/ CrudDeletePlayer
    \/ CrudReadPlayer
    \/ CrudCreateTest
    \/ CrudUpdateTest
    \/ CrudDeleteTest
    \/ CrudCreateResult
    \/ CrudCreateBulk
    \/ CrudUpdateResult
    \/ CrudDeleteResult
    \/ CrudHealth
    \/ Deliver

SpecCrud == InitCrud /\ [][NextCrud]_vars

(***************************************************************************)
(* The read specification: results are created and updated, a player's     *)
(* date of birth is updated, and every read route is asked in between       *)
(***************************************************************************)
OlderBirth == MkDate(FirstYear - 12, 6, 1)

\* the bodies of the results created: for a stored player and the stored test
ReadEntries ==
    {Entry(pid, tid, sc) : pid \in DOMAIN players, tid \in DOMAIN tests,
                           sc \in {LowScores, HighScores}}

ReadCreateResult ==
    /\ now < MaxClock
    /\ Len(results) < MaxResults
    /\ \E entry \in ReadEntries :
          Handle("results.create", [entries |-> <<entry>>],
                 resultsController_create(entry))

ReadUpdateResult ==
    /\ now < MaxClock
    /\ \E id \in ResultIds, updateData \in UpdateBodies :
          Handle("results.update", [id |-> id, updateData |-> updateData],
                 resultsController_update(id, updateData))

ReadUpdatePlayer ==
    \E id \in DOMAIN players, dateOfBirth \in {PastBirth, OlderBirth} :
        Handle("players.update", [id |-> id, dateOfBirth |-> dateOfBirth],
               playersController_update("service", "schema", id,
                   [dateOfBirth |-> {dateOfBirth}, gender |-> None], FALSE))

ReadPlayerDetail ==
    \E id \in DOMAIN players \cup {0} :
        Handle("players.findById", [id |-> id],
               playersController_findById("schema", id))

ReadTestDetail ==
    \E id \in DOMAIN tests \cup {0} :
        Handle("tests.findById", [id |-> id], testsController_findById(id))

ReadResultDetail ==
    \E id \in ResultIds \cup {MissingResultId} :
        Handle("results.findById", [id |-> id], resultsController_findById(id))

\* the score ranges a results listing is asked with
ScoreRanges == {<<None, None>>, <<{10}, None>>, <<None, {10}>>, <<{4}, {20}>>}

ReadListResults ==
    /\ resp = NoResp
    /\ \E range \in ScoreRanges :
          Handle("results.findAll", [minScore |-> range[1], maxScore |-> range[2]],
                 resultsController_findAll(None, None, range[1], range[2],
                                           None, None, 1, MaxResults + 1, TRUE))

ReadListTests ==
    /\ resp = NoResp
    /\ Handle("tests.findAll", [page |-> 1],
              testsController_findAll(None, None, None, None, None,
                                      1, MaxLimit, TRUE))

ReadListPlayers ==
    /\ resp = NoResp
    /\ \E ageGroup \in {None} \cup {{g} : g \in {"U-09", "U-11", "U-13"}} :
          Handle("players.findAll", [ageGroup |-> ageGroup],
                 playersController_findAll("schema", None, None, ageGroup, None,
                                           1, MaxLimit, TRUE))

NextRead ==
    \/ ReadCreateResult
    \/ ReadUpdateResult
    \/ ReadUpdatePlayer
    \/ ReadPlayerDetail
    \/ ReadTestDetail
    \/ ReadResultDetail
    \/ ReadListResults
    \/ ReadListTests
    \/ ReadListPlayers
    \/ Deliver

SpecRead == InitCrud /\ [][NextRead]_vars

(***************************************************************************)
(* The race specification: the update and the delete of a player taken     *)
(* query by query, while other requests delete players in between           *)
(***************************************************************************)
\* update and delete up to the existence check: the select by id, and 404
\* when it returns no row
player_check(handler, id, updateData) ==
    /\ resp = NoResp
    /\ inflight = NoInflight
    /\ inflight' = [handler |-> handler, id |-> id, updateData |-> updateData,
                    stage |-> IF id \in DOMAIN players THEN "checked" ELSE "done",
                    gone |-> FALSE]
    /\ resp' = IF id \in DOMAIN players THEN resp
               ELSE [status |-> 404, kind |-> "notfound"]
    /\ UNCHANGED <<today, tz, players, tests, results, now>>

\* playersController.update after the check: UPDATE ... WHERE id RETURNING,
\* then age and ageGroup of result[0]; with no row updated result[0] is
\* undefined, reading its dateOfBirth throws and the catch block answers 500
playersController_update_mutate ==
    /\ inflight.handler = "players.update"
    /\ inflight.stage = "checked"
    /\ IF inflight.id \in DOMAIN players
       THEN LET row == [players[inflight.id] EXCEPT
                           !.dateOfBirth = Val(inflight.updateData.dateOfBirth)]
            IN  /\ players' = [players EXCEPT ![inflight.id] = row]
                /\ resp' = [status |-> 200, kind |-> "player", service |-> "schema",
                            body |-> PlayerBody("schema", inflight.id, row),
                            testResults |-> <<>>]
       ELSE /\ resp' = [status |-> 500, kind |-> "error"]
            /\ UNCHANGED players
    /\ inflight' = [inflight EXCEPT !.stage = "done",
                                    !.gone = inflight.id \notin DOMAIN players]
    /\ UNCHANGED <<today, tz, tests, results, now>>

\* playersController.delete after the check: DELETE ... WHERE id, then 204,
\* whether or not a row was deleted
playersController_delete_mutate ==
    /\ inflight.handler = "players.delete"
    /\ inflight.stage = "checked"
    /\ players' = Remove(players, inflight.id)
    /\ results' = results_cascadePlayer(inflight.id)
    /\ resp' = [status |-> 204, kind |-> "empty"]
    /\ inflight' = [inflight EXCEPT !.stage = "done",
                                    !.gone = inflight.id \notin DOMAIN players]
    /\ UNCHANGED <<today, tz, tests, now>>

\* the DELETE statement of another request, run between two queries of this one
otherRequest_delete(id) ==
    /\ inflight.handler # "none"
    /\ inflight.stage = "checked"
    /\ id \in DOMAIN players
    /\ players' = Remove(players, id)
    /\ results' = results_cascadePlayer(id)
    /\ UNCHANGED <<today, tz, tests, now, resp, inflight>>

RaceStartUpdate ==
    \E id \in DOMAIN players \cup {0}, dateOfBirth \in {PastBirth, OlderBirth} :
        player_check("players.update", id,
                     [dateOfBirth |-> {dateOfBirth}, gender |-> None])

RaceStartDelete ==
    \E id \in DOMAIN players \cup {0} :
        player_check("players.delete", id, [dateOfBirth |-> None, gender |-> None])

RaceOtherDelete == \E id \in DOMAIN players : otherRequest_delete(id)

RaceCreateResult ==
    /\ now < MaxClock
    /\ Len(results) < MaxResults
    /\ \E entry \in ReadEntries : resultsController_create(entry)

NextRace ==
    \/ Serve(RaceCreateResult)
    \/ RaceStartUpdate
    \/ RaceStartDelete
    \/ playersController_update_mutate
    \/ playersController_delete_mutate
    \/ RaceOtherDelete
    \/ Deliver

SpecRace == InitCrud /\ [][NextRace]_vars

(***************************************************************************)
(* The interleaving specification: a listing taken query by query while    *)
(* other requests insert and delete results between its two queries         *)
(***************************************************************************)
\* the INSERT of another request's create, run while the listing is in flight
otherRequest_insert(entry) ==
    /\ inflight.handler # "none"
    /\ ~inflight.responded
    /\ results' = Append(results, NewResult(<<now, 1>>, entry))
    /\ now' = now + 1
    /\ UNCHANGED <<today, tz, players, tests, resp, inflight>>

\* the DELETE of another request's delete, run while the listing is in flight
otherRequest_deleteResult(id) ==
    /\ inflight.handler # "none"
    /\ ~inflight.responded
    /\ results' = SelectSeq(results, LAMBDA r : r.id # id)
    /\ UNCHANGED <<today, tz, players, tests, now, resp, inflight>>

InterleavedInsert ==
    /\ now < MaxClock
    /\ Len(results) < MaxResults
    /\ \E entry \in ReadEntries : otherRequest_insert(entry)

InterleavedDelete == \E id \in ResultIds : otherRequest_deleteResult(id)

NextInterleave ==
    \/ Serve(RaceCreateResult)
    \/ StartListing
    \/ CountSettles
    \/ DataSettles
    \/ findAll_resume
    \/ InterleavedInsert
    \/ InterleavedDelete
    \/ Deliver

SpecInterleave == InitCrud /\ [][NextInterleave]_vars

(***************************************************************************)
(* The bracket specification: a club with a player in every age bracket,   *)
(* listed by age group                                                     *)
(***************************************************************************)
\* playersQuerySchema.ageGroup: z.enum([...]).optional()
AgeGroupEnum ==
    {"mini", "U-09", "U-11", "U-13", "U-15", "U-17", "U-19", "U-21", "Seniors"}

playersQuerySchema(ageGroup) == ageGroup = None \/ Val(ageGroup) \in AgeGroupEnum

\* ages of the players of the club at the start, one for every bracket
BracketAges == <<5, 8, 10, 12, 14, 16, 18, 20, 30>>

BracketRow(i) ==
    [name |-> <<"a">>, dateOfBirth |-> MkDate(FirstYear - BracketAges[i], 6, 1),
     gender |-> "male", preferredHand |-> "right",
     createdAt |-> i, updatedAt |-> i]

InitBracket ==
    /\ today = MkDate(FirstYear, 6, 1)
    /\ tz = "utc"
    /\ players = [i \in 1..Len(BracketAges) |-> BracketRow(i)]
    /\ tests = <<>>
    /\ results = <<>>
    /\ now = Len(BracketAges) + 1
    /\ resp = NoResp
    /\ inflight = NoInflight

BracketJoin ==
    /\ now <= Len(BracketAges) + MaxNewPlayers
    /\ \E age \in {5, 8, 12} :
          Handle("players.create", [age |-> age],
                 playersController_create("schema", now, <<"a">>,
                     MkDate(FirstYear - age, 6, 1), "male", "right", FALSE))

\* the values a client sends: those of the enum, and the labels it was shown
BracketList ==
    /\ resp = NoResp
    /\ \E ageGroup \in {None} \cup {{v} : v \in AgeGroupEnum \cup SeqToSet(AgeGroups)} :
          Handle("players.findAll", [ageGroup |-> ageGroup],
                 Validated(playersQuerySchema(ageGroup), TRUE, TRUE,
                     playersController_findAll("schema", None, None, ageGroup,
                                               None, 1, 1, TRUE)))

NextBracket ==
    \/ BracketJoin
    \/ BracketList
    \/ Deliver

SpecBracket == InitBracket /\ [][NextBracket]_vars

(***************************************************************************)
(* The authentication specification: a request passes the middleware of    *)
(* its route, then the controller runs                                     *)
(***************************************************************************)
\* what auth.api.getSession gives: a session with its user, a session
\* without a user, no session, or an exception
SessionOutcomes == {"user", "noUser", "noSession", "throws"}

Unauthorized == [status |-> 401, kind |-> "unauthorized"]

\* requireAuth without the return in front of the 401
requireAuth_fallthrough(outcome) ==
    /\ inflight.stage = "lookup"
    /\ inflight.chain = <<"requireAuth">>
    /\ resp' = IF outcome = "user" THEN resp ELSE Unauthorized
    /\ inflight' = [inflight EXCEPT
           !.lookup = outcome,
           !.user = IF outcome = "user" THEN {"admin"} ELSE None,
           !.sent = IF outcome = "user" THEN @ ELSE @ + 1,
           !.nextCalls = IF outcome = "throws" THEN @ ELSE @ + 1,
           !.stage = IF outcome = "throws" THEN "done" ELSE "handler"]
    /\ UNCHANGED <<today, tz, players, tests, results, now>>

\* requireAuth, from the settled session lookup to next() or the 401
requireAuth(outcome) ==
    /\ inflight.stage = "lookup"
    /\ inflight.chain = <<"requireAuth">>
    /\ IF outcome = "user"
       THEN /\ inflight' = [inflight EXCEPT !.lookup = outcome, !.user = {"admin"},
                                            !.nextCalls = @ + 1, !.stage = "handler"]
            /\ UNCHANGED resp
       ELSE /\ resp' = Unauthorized
            /\ inflight' = [inflight EXCEPT !.lookup = outcome, !.sent = @ + 1,
                                            !.stage = "done"]
    /\ UNCHANGED <<today, tz, players, tests, results, now>>

\* optionalAuth, from the settled session lookup to next()
optionalAuth(outcome) ==
    /\ inflight.stage = "lookup"
    /\ inflight.chain = <<"optionalAuth">>
    /\ inflight' = [inflight EXCEPT
           !.lookup = outcome,
           !.user = IF outcome = "user" THEN {"admin"} ELSE None,
           !.nextCalls = @ + 1,
           !.stage = "handler"]
    /\ UNCHANGED <<today, tz, players, tests, results, now, resp>>

\* the router definitions: "auth" for the ones that mount requireAuth, "open"
\* for the ones that do not
RouterRevs == {"auth", "open"}

PlayersWrites == {"players.create", "players.update", "players.delete"}
TestsWrites == {"tests.create", "tests.update", "tests.delete"}
ResultsWrites == {"results.create", "results.createBulk", "results.update", "results.delete"}

playersRouter(rev) ==
    [op \in PlayersWrites \cup {"players.findAll", "players.findById"} |->
        IF rev = "auth" /\ op \in PlayersWrites THEN <<"requireAuth">> ELSE <<>>]

testsRouter ==
    [op \in TestsWrites \cup {"tests.findAll", "tests.findById"} |->
        IF op \in TestsWrites THEN <<"requireAuth">> ELSE <<>>]

resultsRouter(rev) ==
    [op \in ResultsWrites \cup {"results.findAll", "results.findById"} |->
        IF rev = "auth" /\ op \in ResultsWrites THEN <<"requireAuth">> ELSE <<>>]

\* the routes of one revision of the routers
Routes(rev) == playersRouter(rev) @@ testsRouter @@ resultsRouter(rev)

Arriving(op, rev, chain) ==
    [handler |-> op, router |-> rev, chain |-> chain,
     stage |-> IF chain = <<>> THEN "handler" ELSE "lookup",
     lookup |-> "none", user |-> None, nextCalls |-> 0, sent |-> 0, ran |-> FALSE]

\* a request is routed: its middleware starts the session lookup, or, on a
\* route without middleware, the controller is next
AuthArrive ==
    /\ resp = NoResp
    /\ inflight = NoInflight
    /\ \E rev \in RouterRevs :
          \E op \in DOMAIN Routes(rev) :
             inflight' = Arriving(op, rev, Routes(rev)[op])
    /\ UNCHANGED <<today, tz, players, tests, results, now, resp>>

\* optionalAuth in front of a read handler
AuthOptional ==
    /\ resp = NoResp
    /\ inflight = NoInflight
    /\ inflight' = Arriving("players.findById", "auth", <<"optionalAuth">>)
    /\ UNCHANGED <<today, tz, players, tests, results, now, resp>>

RequireAuthSettles ==
    /\ inflight.handler # "none"
    /\ \E outcome \in SessionOutcomes : requireAuth(outcome)

OptionalAuthSettles ==
    /\ inflight.handler # "none"
    /\ \E outcome \in SessionOutcomes : optionalAuth(outcome)

\* the controller of the route, on one request for each handler
AuthController(op) ==
    \/ /\ op = "players.create"
       /\ playersController_create("schema", now, <<"a">>, PastBirth, "male", "right", FALSE)
    \/ /\ op = "players.update"
       /\ \E id \in DOMAIN players :
             playersController_update("types", "schema", id,
                 [dateOfBirth |-> {OlderBirth}, gender |-> None], FALSE)
    \/ /\ op = "players.delete"
       /\ \E id \in DOMAIN players \cup {0} : playersController_delete(id)
    \/ /\ op = "players.findById"
       /\ \E id \in DOMAIN players \cup {0} : playersController_findById("schema", id)
    \/ /\ op = "players.findAll"
       /\ playersController_findAll("schema", None, None, None, None, 1, 1, TRUE)
    \/ /\ op = "tests.create"
       /\ testsController_create(now, <<"a">>, 30, 30, MkDate(FirstYear, 1, 1))
    \/ /\ op = "tests.update"
       /\ \E id \in DOMAIN tests : testsController_update(id, [playingTime |-> {45}])
    \/ /\ op = "tests.delete"
       /\ \E id \in DOMAIN tests \cup {0} : testsController_delete(id)
    \/ /\ op = "tests.findById"
       /\ \E id \in DOMAIN tests \cup {0} : testsController_findById(id)
    \/ /\ op = "tests.findAll"
       /\ testsController_findAll(None, None, None, None, None, 1, MaxLimit, TRUE)
    \/ /\ op = "results.create"
       /\ Len(results) < MaxResults
       /\ \E entry \in ReadEntries : resultsController_create(entry)
    \/ /\ op = "results.createBulk"
       /\ Len(results) < MaxResults
       /\ \E entry \in ReadEntries : resultsController_createBulk(<<entry>>)
    \/ /\ op = "results.update"
       /\ \E id \in ResultIds, updateData \in UpdateBodies : resultsController_update(id, updateData)
    \/ /\ op = "results.delete"
       /\ \E id \in ResultIds \cup {MissingResultId} : resultsController_delete(id)
    \/ /\ op = "results.findById"
       /\ \E id \in ResultIds \cup {MissingResultId} : resultsController_findById(id)
    \/ /\ op = "results.findAll"
       /\ resultsController_findAll(None, None, None, None, None, None, 1, MaxLimit, TRUE)

\* next() has been called, or the route has no middleware: the controller runs
AuthRunController ==
    /\ inflight.handler # "none"
    /\ inflight.stage = "handler"
    /\ resp = NoResp
    /\ now < MaxClock
    /\ AuthController(inflight.handler)
    /\ inflight' = [inflight EXCEPT !.stage = "done", !.ran = TRUE]

NextAuth ==
    \/ AuthArrive
    \/ AuthOptional
    \/ RequireAuthSettles
    \/ OptionalAuthSettles
    \/ AuthRunController
    \/ Deliver

SpecAuth == InitCrud /\ [][NextAuth]_vars

(***************************************************************************)
(* The paging specification: a client reads a listing page after page      *)
(* while nothing is written                                                *)
(***************************************************************************)
\* the ids of the items of a page response
ItemIds(r) == {r.body.items[i].id : i \in 1..Len(r.body.items)}

PagesCreateTest ==
    /\ now < MaxClock
    /\ Cardinality(DOMAIN tests) < 2
    /\ Serve(testsController_create(now, <<"a">>, 30, 30, MkDate(FirstYear, 1, 1)))

PagesCreateResult ==
    /\ now < MaxClock
    /\ Len(results) < MaxResults
    /\ \E entry \in ReadEntries : Serve(resultsController_create(entry))

\* POST /results/bulk with two entries: both rows get the same created_at
PagesCreateBulk ==
    /\ now < MaxClock
    /\ Len(results) + 2 <= MaxResults
    /\ \E e1 \in ReadEntries, e2 \in ReadEntries :
          Serve(resultsController_createBulk(<<e1, e2>>))

\* GET /results?page=1 with a filter and a limit the client keeps
WalkResultsStart ==
    /\ resp = NoResp
    /\ inflight = NoInflight
    /\ \E limit \in 1..MaxLimit, range \in ScoreRanges,
          playerId \in {None} \cup {{p} : p \in DOMAIN players} :
          /\ resultsController_findAll(playerId, None, range[1], range[2],
                                       None, None, 1, limit, TRUE)
          /\ inflight' = [handler |-> "results.findAll",
                          request |-> [playerId |-> playerId, minScore |-> range[1],
                                       maxScore |-> range[2], limit |-> limit],
                          before |-> Store,
                          pages |-> <<ItemIds(resp')>>]

\* the next page of the same listing
WalkResultsNext ==
    /\ inflight.handler = "results.findAll"
    /\ Len(inflight.pages) < resp.body.totalPages
    /\ resultsController_findAll(inflight.request.playerId, None,
                                 inflight.request.minScore, inflight.request.maxScore,
                                 None, None, Len(inflight.pages) + 1,
                                 inflight.request.limit, TRUE)
    /\ inflight' = [inflight EXCEPT !.pages = Append(@, ItemIds(resp'))]

\* GET /tests?page=1 with a limit the client keeps
WalkTestsStart ==
    /\ resp = NoResp
    /\ inflight = NoInflight
    /\ \E limit \in 1..MaxLimit :
          /\ testsController_findAll(None, None, None, None, None, 1, limit, TRUE)
          /\ inflight' = [handler |-> "tests.findAll",
                          request |-> [limit |-> limit],
                          before |-> Store,
                          pages |-> <<ItemIds(resp')>>]

WalkTestsNext ==
    /\ inflight.handler = "tests.findAll"
    /\ Len(inflight.pages) < resp.body.totalPages
    /\ testsController_findAll(None, None, None, None, None,
                               Len(inflight.pages) + 1, inflight.request.limit, TRUE)
    /\ inflight' = [inflight EXCEPT !.pages = Append(@, ItemIds(resp'))]

NextPages ==
    \/ PagesCreateTest
    \/ PagesCreateResult
    \/ PagesCreateBulk
    \/ WalkResultsStart
    \/ WalkResultsNext
    \/ WalkTestsStart
    \/ WalkTestsNext
    \/ Deliver

SpecPages == InitCrud /\ [][NextPages]_vars

(***************************************************************************)
(* Properties of the age classifier (checked under SpecAge)                *)
(***************************************************************************)
IsPlayerResp(r) == r.kind = "player"

\* true when (month, day) of a comes before (month, day) of b in the year
MonthDayPrecedes(a, b) == a.m < b.m \/ (a.m = b.m /\ a.d < b.d)

BirthdayRuleAge(d, r) ==
    (r.y - d.y) - (IF MonthDayPrecedes(r, d) THEN 1 ELSE 0)

Rank(label) == CHOOSE i \in 1..Len(AgeGroups) : AgeGroups[i] = label

BracketBounds == {7, 9, 11, 13, 15, 17, 19, 21}

\* C1: every age a handler reports for a stored birth date d on the reference
\* date r (d <= r) is year(r) - year(d), minus 1 exactly when (month, day) of
\* r precedes (month, day) of d.
C1_BirthdayRule ==
    [][(today' = today /\ IsPlayerResp(resp')
            /\ DateKey(resp'.body.dateOfBirth) <= DateKey(today'))
        => resp'.body.age = BirthdayRuleAge(resp'.body.dateOfBirth, today')]_vars

\* C2: every reported age of an accepted birth date is in [0, 130].
C2_AgeWithin130 ==
    IsPlayerResp(resp) => (resp.body.age >= 0 /\ resp.body.age <= 130)

\* the lower half of C2: every reported age of an accepted birth date is
\* >= 0
AgeNonNegative ==
    IsPlayerResp(resp) => resp.body.age >= 0

\* a player born on the very day of the request (or, west of UTC, on the
\* date UTC has already reached) was accepted and reported with age 0
AgeZeroReported ==
    /\ IsPlayerResp(resp)
    /\ resp.body.age = 0
    /\ DateKey(resp.body.dateOfBirth) >= DateKey(today)

\* C3: for a fixed stored date of birth, a later response never reports a
\* smaller age than the response before it.
C3_AgeMonotonic ==
    [][(IsPlayerResp(resp) /\ IsPlayerResp(resp')
            /\ resp'.body.id = resp.body.id
            /\ resp'.body.dateOfBirth = resp.body.dateOfBirth)
        => resp'.body.age >= resp.body.age]_vars

\* a read was answered, and since then a birthday has passed, so that the
\* next read reports a greater age
C3_Witness ==
    /\ IsPlayerResp(resp)
    /\ resp.status = 200
    /\ calculateAge(resp.body.dateOfBirth) > resp.body.age

\* C4: the bracket is one of the nine labels, it is the first bound in
\* ascending order that the age satisfies (exclusive bounds in the service
\* revision, inclusive bounds in the schema revision), it never moves down
\* the ladder when the age grows, and age 9 is U-11 under exclusive and
\* U-09 under inclusive bounds.
C4_StepFunction ==
    /\ [](IsPlayerResp(resp) =>
            /\ resp.body.ageGroup \in SeqToSet(AgeGroups)
            /\ Rank(resp.body.ageGroup) =
                  1 + Cardinality({b \in BracketBounds :
                        IF resp.service = "service"
                        THEN resp.body.age >= b
                        ELSE resp.body.age > b})
            /\ (resp.body.age = 9 =>
                  resp.body.ageGroup =
                    (IF resp.service = "service" THEN "U-11" ELSE "U-09")))
    /\ [][(IsPlayerResp(resp) /\ IsPlayerResp(resp')
              /\ resp'.service = resp.service
              /\ resp'.body.age >= resp.body.age)
          => Rank(resp'.body.ageGroup) >= Rank(resp.body.ageGroup)]_vars

\* a player aged exactly 9 was reported by the schema revision
C4_Witness ==
    /\ IsPlayerResp(resp)
    /\ resp.service = "schema"
    /\ resp.body.age = 9
    /\ resp.body.ageGroup = "U-09"

\* C5: every implementation of getAgeGroup returns the same label for every
\* stored player.
C5_SameLabelEverywhere ==
    \A id \in DOMAIN players :
        getAgeGroup(players[id].dateOfBirth)
            = playersService_getAgeGroup(players[id].dateOfBirth)

(***************************************************************************)
(* Properties of the derived total score and of the listings (checked      *)
(* under SpecList)                                                         *)
(***************************************************************************)
Min(a, b) == IF a < b THEN a ELSE b

Max(a, b) == IF a > b THEN a ELSE b

\* the sum of the four sub-scores stored in the row with this id
StoredSum(id) ==
    LET r == CHOOSE x \in SeqToSet(results) : x.id = id
    IN  r.leftHandScore + r.rightHandScore + r.forehandScore + r.backhandScore

\* the result objects of a response that carry a totalScore
ScoredItems(r) ==
    IF r.status \notin {200, 201} THEN <<>>
    ELSE IF r.kind = "result" THEN <<r.body>>
    ELSE IF r.kind = "bulk" THEN r.items
    ELSE IF r.kind = "page" /\ r.handler = "results" THEN r.body.items
    ELSE IF r.kind \in {"player", "testDetail"} THEN r.testResults
    ELSE <<>>

\* C6: every result object that a response carries (list, detail, create,
\* update, bulk create, results nested in a player or test detail) has
\* totalScore = leftHandScore + rightHandScore + forehandScore +
\* backhandScore of the stored row with the same id, and echoes that row's
\* sub-scores; sub-scores 10, 8, 7, 5 give 30.
C6_TotalScoreIsSum ==
    \A i \in DOMAIN ScoredItems(resp) :
        LET x == ScoredItems(resp)[i]
        IN  /\ x.id \in ResultIds
            /\ x.totalScore = StoredSum(x.id)
            /\ x.totalScore = x.leftHandScore + x.rightHandScore
                                + x.forehandScore + x.backhandScore
            /\ (<<x.leftHandScore, x.rightHandScore,
                  x.forehandScore, x.backhandScore>> = <<10, 8, 7, 5>>
                    => x.totalScore = 30)

\* an update changed two sub-scores of the row 10, 8, 7, 5 and the response
\* carries the total of the row as it is stored now
C6_Witness ==
    /\ resp.status = 200
    /\ resp.kind = "result"
    /\ \E r \in SeqToSet(results) :
          /\ r.id = resp.body.id
          /\ r.updatedAt # r.createdAt
          /\ resp.body.totalScore = 3 + 8 + 7 + 0

IsPage(r) == r.kind = "page"

NoDerivedFilter(r) ==
    r.handler # "results" \/ (r.query.minScore = None /\ r.query.maxScore = None)

C8_Envelope ==
    IsPage(resp) =>
        LET b == resp.body
        IN  /\ DOMAIN b = {"items", "page", "limit", "totalItems", "totalPages"}
            /\ b.page = resp.query.page
            /\ b.limit = resp.query.limit
            /\ b.totalItems = Cardinality(Matching(resp))
            /\ b.totalPages * b.limit >= b.totalItems
            /\ (b.totalPages - 1) * b.limit < b.totalItems
            /\ (b.totalItems = 0 => (b.totalPages = 0 /\ b.items = <<>>))

\* the last page is not full: totalPages is totalItems / limit rounded up
C8_Witness ==
    /\ IsPage(resp)
    /\ resp.body.limit > 1
    /\ resp.body.page # resp.body.limit
    /\ resp.body.totalItems % resp.body.limit # 0
    /\ resp.body.totalPages = (resp.body.totalItems \div resp.body.limit) + 1

\* the number of rows a findAll response was asked about
ListedCount(r) ==
    IF r.handler = "players" THEN Cardinality(DOMAIN players)
    ELSE Cardinality(Matching(r))

\* C9: every findAll (players, tests, results) over a dataset that is not
\* empty answers with the envelope {items, page, limit, totalItems,
\* totalPages} and returns the rows of the requested page only, that is
\* min(limit, max(0, N - (page-1)*limit)) items.
C9_EveryListingPaginates ==
    (/\ resp.status = 200
     /\ resp.kind \in {"page", "array"}
     /\ NoDerivedFilter(resp)
     /\ ListedCount(resp) > 0) =>
        /\ resp.kind = "page"
        /\ DOMAIN resp.body = {"items", "page", "limit", "totalItems", "totalPages"}
        /\ resp.body.totalItems = ListedCount(resp)
        /\ Len(resp.body.items) =
              Min(resp.query.limit,
                  Max(0, ListedCount(resp)
                           - (resp.query.page - 1) * resp.query.limit))

InScoreRange(x, query) ==
    /\ (query.minScore # None => x.totalScore >= Val(query.minScore))
    /\ (query.maxScore # None => x.totalScore <= Val(query.maxScore))

\* C10: in a results listing with minScore or maxScore, totalItems and
\* totalPages count the rows matching the predicates pushed to storage,
\* whatever their score, and the items are the rows of the page
\* (page-1)*limit + 1 .. (page-1)*limit + limit of those rows that are in
\* the score range, in the page's order.
C10_ScoreFilterAfterPage ==
    (IsPage(resp) /\ resp.handler = "results" /\ ~NoDerivedFilter(resp)) =>
        LET limit == resp.query.limit
            offset == (resp.query.page - 1) * limit
            M == Matching(resp)
            b == resp.body
        IN  /\ b.totalItems = Cardinality(M)
            /\ b.totalPages = (Cardinality(M) + limit - 1) \div limit
            /\ \E ordered \in OrderByCreatedAtDesc(M) :
                  b.items = SelectSeq(
                      SubSeq(ordered, offset + 1,
                             Min(offset + limit, Len(ordered))),
                      LAMBDA x : InScoreRange(x, resp.query))

\* fewer items than limit came back although a matching row in the score
\* range is on another page, and totalItems counts rows out of the range
C10_Witness ==
    /\ IsPage(resp)
    /\ resp.handler = "results"
    /\ ~NoDerivedFilter(resp)
    /\ Len(resp.body.items) < resp.query.limit
    /\ \E m \in Matching(resp) :
          /\ InScoreRange(m, resp.query)
          /\ \A k \in 1..Len(resp.body.items) : resp.body.items[k] # m
    /\ resp.body.totalItems >
          Cardinality({m \in Matching(resp) : InScoreRange(m, resp.query)})

(***************************************************************************)
(* Properties of the players listing (checked under SpecRoster)            *)
(***************************************************************************)
\* the players selected by the filters pushed to storage
StorageMatches(query) ==
    {id \in DOMAIN players :
        /\ (query.q # None => ilike(players[id].name, Val(query.q)))
        /\ (query.gender # None => players[id].gender = Val(query.gender))
        /\ (query.preferredHand # None =>
                players[id].preferredHand = Val(query.preferredHand))}

\* the 50 most recently created of them
First50(query) ==
    {id \in StorageMatches(query) :
        Cardinality({j \in StorageMatches(query) :
            players[j].createdAt > players[id].createdAt}) < 50}

IsPlayersList(r) == r.status = 200 /\ r.kind = "array" /\ r.handler = "players"

ListedIds(r) == {r.items[k].id : k \in 1..Len(r.items)}

\* C11: a players listing with an ageGroup filter returns exactly those of
\* the 50 most recently created storage matches (q, gender, preferredHand)
\* whose computed ageGroup equals the filter, newest first, each once; a
\* storage match ranked after the first 50 is not returned.
C11_AgeGroupAfterTruncation ==
    (IsPlayersList(resp) /\ resp.query.ageGroup # None) =>
        /\ ListedIds(resp) =
              {id \in First50(resp.query) :
                  getAgeGroup(players[id].dateOfBirth) = Val(resp.query.ageGroup)}
        /\ \A k \in 1..Len(resp.items) :
              resp.items[k].ageGroup = Val(resp.query.ageGroup)
        /\ \A j, k \in 1..Len(resp.items) :
              j < k => resp.items[j].createdAt > resp.items[k].createdAt

\* a stored player matches every filter of the listing but is ranked after
\* the first 50 storage matches, and the listing does not return it
C11_Witness ==
    /\ IsPlayersList(resp)
    /\ resp.query.ageGroup # None
    /\ \E id \in StorageMatches(resp.query) \ First50(resp.query) :
          /\ getAgeGroup(players[id].dateOfBirth) = Val(resp.query.ageGroup)
          /\ id \notin ListedIds(resp)

(***************************************************************************)
(* Properties of the storage filter (checked under SpecFilter)             *)
(***************************************************************************)
\* the intersection of a non-empty set of sets
Intersection(sets) ==
    {x \in UNION sets : \A S \in sets : x \in S}

AllResults == {ResultWithCalculatedFields(x) : x \in SeqToSet(results)}

AllTests == {TestItem(pr) : pr \in TablePairs(tests)}

\* for a listing response, the candidate rows and, for each storage
\* parameter that is present, the rows that predicate selects on its own
SelectedAlone(r) ==
    IF r.handler = "results" THEN
        {AllResults}
        \cup {{x \in AllResults : x.playerId = v} : v \in r.query.playerId}
        \cup {{x \in AllResults : x.testId = v} : v \in r.query.testId}
        \cup {{x \in AllResults : x.createdAt >= v} : v \in r.query.dateFrom}
        \cup {{x \in AllResults : x.createdAt <= v} : v \in r.query.dateTo}
    ELSE IF r.handler = "tests" THEN
        {AllTests}
        \cup {{x \in AllTests : \E i \in 1..Len(x.name) :
                                   \E j \in i..Len(x.name) : SubSeq(x.name, i, j) = v} :
                 v \in r.query.q}
        \cup {{x \in AllTests : x.playingTime = v} : v \in r.query.playingTime}
        \cup {{x \in AllTests : x.recoveryTime = v} : v \in r.query.recoveryTime}
    ELSE
        {DOMAIN players}
        \cup {{id \in DOMAIN players : \E i \in 1..Len(players[id].name) :
                   \E j \in i..Len(players[id].name) :
                       SubSeq(players[id].name, i, j) = v} : v \in r.query.q}
        \cup {{id \in DOMAIN players : players[id].gender = v} : v \in r.query.gender}
        \cup {{id \in DOMAIN players : players[id].preferredHand = v} :
                 v \in r.query.preferredHand}

\* the rows a listing response returns, all of them fitting on its page
ListedRows(r) ==
    IF r.kind = "page" THEN {r.body.items[k] : k \in 1..Len(r.body.items)}
    ELSE ListedIds(r)

C13_BothAwaited ==
    inflight.handler # "none" =>
        /\ (~inflight.responded => resp = NoResp)
        /\ (inflight.responded =>
              \/ /\ IsPage(resp)
                 /\ resp.status = 200
                 /\ inflight.countQuery.state = "fulfilled"
                 /\ inflight.dataQuery.state = "fulfilled"
                 /\ resp.body.totalItems = inflight.countQuery.value
                 /\ \A k \in 1..Len(resp.body.items) :
                       \E j \in 1..Len(inflight.dataQuery.value) :
                           resp.body.items[k] = inflight.dataQuery.value[j]
              \/ /\ resp = [status |-> 500, kind |-> "error"]
                 /\ \/ inflight.countQuery.state = "rejected"
                    \/ inflight.dataQuery.state = "rejected")

\* the data query returned rows, the count query failed, and the request
\* ended with the internal-error response
C13_Witness ==
    /\ inflight.handler # "none"
    /\ inflight.responded
    /\ inflight.dataQuery.state = "fulfilled"
    /\ inflight.dataQuery.value # <<>>
    /\ inflight.countQuery.state = "rejected"
    /\ resp.status = 500

(***************************************************************************)
(* Properties of the store specification                                   *)
(***************************************************************************)
\* the request just answered was well-formed and met a working database
Served(op) ==
    /\ inflight.handler = op
    /\ inflight.request.paramsOk
    /\ inflight.request.bodyOk
    /\ inflight.request.dbOk

StoreUntouched == Store = inflight.before

\* C14: a results create whose playerId matches no stored player, or whose
\* testId matches no stored test, is answered with 404 and inserts no row:
\* the store after the request is the store before it.
C14_CreateMissingReference ==
    (/\ Served("results.create")
     /\ \/ inflight.request.entries[1].playerId \notin DOMAIN inflight.before.players
        \/ inflight.request.entries[1].testId \notin DOMAIN inflight.before.tests)
    => /\ resp = [status |-> 404, kind |-> "notfound"]
       /\ StoreUntouched

\* a result for a stored player and a test nobody stored was refused, and
\* the results are what they were
C14_Witness ==
    /\ Served("results.create")
    /\ inflight.request.entries[1].playerId \in DOMAIN inflight.before.players
    /\ inflight.request.entries[1].testId \notin DOMAIN inflight.before.tests
    /\ resp.status = 404
    /\ inflight.before.players # <<>>
    /\ results = inflight.before.results

\* some entry of the request just answered names a player or a test that the
\* store did not hold
MissingReference ==
    \E i \in 1..Len(inflight.request.entries) :
        \/ inflight.request.entries[i].playerId \notin DOMAIN inflight.before.players
        \/ inflight.request.entries[i].testId \notin DOMAIN inflight.before.tests

\* C15: every operation that creates results, single or bulk, checks each
\* referenced player and test before it inserts: a request with an entry
\* whose player or test does not exist is answered with 404 and inserts no
\* row at all.
C15_EveryCreateChecksReferences ==
    (/\ inflight.handler \in {"results.create", "results.createBulk"}
     /\ Served(inflight.handler)
     /\ MissingReference)
    => /\ resp = [status |-> 404, kind |-> "notfound"]
       /\ StoreUntouched

\* what the bulk create does keep of it: a bulk request with a missing
\* reference inserts nothing
BulkInsertsAllOrNothing ==
    (Served("results.createBulk") /\ MissingReference) => StoreUntouched

\* every stored result references one stored player and one stored test
ReferencesResolve ==
    \A r \in SeqToSet(results) :
        r.playerId \in DOMAIN players /\ r.testId \in DOMAIN tests

\* the results of the store before the request that reference the row asked for
Referencing(field, id) ==
    {r \in SeqToSet(inflight.before.results) : r[field] = id}

\* a delete of a stored player or test has just been answered
Deleted(op, table) ==
    /\ Served(op)
    /\ inflight.request.id \in DOMAIN inflight.before[table]
    /\ resp.status = 204

MutationOps ==
    {"players.update", "players.delete", "tests.update", "tests.delete",
     "results.update", "results.delete"}

\* the ids of the rows the handler of the request just answered works on
IdsBefore(op) ==
    IF op \in {"players.update", "players.delete"}
    THEN DOMAIN inflight.before.players
    ELSE IF op \in {"tests.update", "tests.delete"}
    THEN DOMAIN inflight.before.tests
    ELSE {r.id : r \in SeqToSet(inflight.before.results)}

IdsNow(op) ==
    IF op \in {"players.update", "players.delete"} THEN DOMAIN players
    ELSE IF op \in {"tests.update", "tests.delete"} THEN DOMAIN tests
    ELSE ResultIds

\* the store before the request without the row of that id and without the
\* results the foreign keys remove with it
WithoutRow(op, id) ==
    IF op = "players.delete"
    THEN [players |-> Remove(inflight.before.players, id),
          tests |-> inflight.before.tests,
          results |-> SelectSeq(inflight.before.results,
                                LAMBDA r : r.playerId # id)]
    ELSE IF op = "tests.delete"
    THEN [players |-> inflight.before.players,
          tests |-> Remove(inflight.before.tests, id),
          results |-> SelectSeq(inflight.before.results,
                                LAMBDA r : r.testId # id)]
    ELSE [players |-> inflight.before.players,
          tests |-> inflight.before.tests,
          results |-> SelectSeq(inflight.before.results,
                                LAMBDA r : r.id # id)]

\* C17: update and delete of players, tests and results look the row up
\* first. For an id no row has the answer is 404 and the store is unchanged;
\* for an id a row has, delete removes that row and the results cascaded
\* from it and nothing else, and the id is gone, so that a second delete of
\* it is a delete of an id no row has.
C17_ExistenceCheckedFirst ==
    \A op \in MutationOps :
        Served(op) =>
            /\ inflight.request.id \notin IdsBefore(op) =>
                   /\ resp = [status |-> 404, kind |-> "notfound"]
                   /\ StoreUntouched
            /\ (inflight.request.id \in IdsBefore(op)
                /\ op \in {"players.delete", "tests.delete", "results.delete"}) =>
                   /\ resp.status = 204
                   /\ Store = WithoutRow(op, inflight.request.id)
                   /\ inflight.request.id \notin IdsNow(op)
            /\ (inflight.request.id \in IdsBefore(op)
                /\ op \in {"players.update", "tests.update", "results.update"}) =>
                   /\ resp.status # 404
                   /\ IdsNow(op) = IdsBefore(op)

\* of the two results one bulk create stored at reading 4, the first was
\* deleted and is asked to be deleted again: 404, and the second is still there
C17_Witness ==
    /\ Served("results.delete")
    /\ inflight.request.id = <<4, 1>>
    /\ inflight.request.id \notin IdsBefore("results.delete")
    /\ resp.status = 404
    /\ ResultIds = {<<4, 2>>}
    /\ StoreUntouched

ControllerOps ==
    {"players.create", "players.update", "players.delete", "players.findById",
     "tests.create", "tests.update", "tests.delete",
     "results.create", "results.createBulk", "results.update", "results.delete"}

\* C18: in every controller operation, params or a body that fail their
\* schema are answered with 400 before any query is sent and before any
\* derived field is computed: the answer is the validation error whether or
\* not the database works and whether or not the row exists, it carries no
\* row, and the store is unchanged.
C18_ValidationFirst ==
    (/\ inflight.handler \in ControllerOps
     /\ ~inflight.request.paramsOk \/ ~inflight.request.bodyOk)
    => /\ resp = [status |-> 400, kind |-> "validation"]
       /\ StoreUntouched

\* an update of a test with a body that fails the schema, for an id no test
\* has, while the database is down: 400, neither 404 nor 500
C18_Witness ==
    /\ inflight.handler = "tests.update"
    /\ inflight.request.paramsOk
    /\ ~inflight.request.bodyOk
    /\ ~inflight.request.dbOk
    /\ inflight.request.id \notin DOMAIN inflight.before.tests
    /\ resp.status = 400

\* invalid params are met before the row is looked up, too
C18_ParamsWitness ==
    /\ inflight.handler = "players.update"
    /\ ~inflight.request.paramsOk
    /\ inflight.request.bodyOk
    /\ resp.status = 400

\* the generic answer to a failure: a status and a fixed message
GenericFailure(r) == r.status >= 500 /\ DOMAIN r = {"status", "kind"}

\* C19: a storage failure in any route handler is answered with a generic
\* internal failure that carries nothing of the underlying error.
C19_FailuresAreGeneric ==
    (/\ inflight.handler # "none"
     /\ inflight.request.paramsOk
     /\ inflight.request.bodyOk
     /\ ~inflight.request.dbOk)
    => GenericFailure(resp)

\* what does hold: the handlers of the three controllers answer a failing
\* database with the fixed 500
ControllerFailuresAreGeneric ==
    (/\ inflight.handler \in ControllerOps
     /\ inflight.request.paramsOk
     /\ inflight.request.bodyOk
     /\ ~inflight.request.dbOk)
    => resp = [status |-> 500, kind |-> "error"]

\* C20: after any sequence of player creates and updates, under either
\* revision of the create and update schemas, no stored date of birth is
\* later than the current date, and every age computed on read is >= 0.
C20_BirthNotAfterToday ==
    /\ \A id \in DOMAIN players :
           DateKey(players[id].dateOfBirth) <= DateKey(today)
    /\ (resp.kind = "player" /\ resp.status \in {200, 201}) => resp.body.age >= 0

(***************************************************************************)
(* Properties of the read specification                                    *)
(***************************************************************************)
\* the columns of the three tables
PlayerColumns ==
    {"name", "dateOfBirth", "gender", "preferredHand", "createdAt", "updatedAt"}

TestColumns ==
    {"name", "playingTime", "recoveryTime", "dateConducted", "createdAt",
     "updatedAt"}

ResultColumns ==
    {"id", "playerId", "testId", "leftHandScore", "rightHandScore",
     "forehandScore", "backhandScore", "createdAt", "updatedAt"}

OnlyRawColumns ==
    /\ \A id \in DOMAIN players : DOMAIN players[id] = PlayerColumns
    /\ \A id \in DOMAIN tests : DOMAIN tests[id] = TestColumns
    /\ \A r \in SeqToSet(results) : DOMAIN r = ResultColumns

ReadOps ==
    {"players.findById", "tests.findById", "results.findById",
     "players.findAll", "tests.findAll", "results.findAll"}

\* the players a response carries, with their derived fields
PlayerItems(r) ==
    IF r.status \notin {200, 201} THEN <<>>
    ELSE IF r.kind = "player" THEN <<r.body>>
    ELSE IF r.kind = "array" THEN r.items
    ELSE <<>>

\* C21: derived fields are not stored and are recomputed for every response:
\* the rows hold the raw columns only; every total a response carries is the
\* sum of the sub-scores stored now and every age and age group is that of
\* the date of birth stored now, also right after an update and on the reads
\* that follow it; findAll and findById leave the store as it was.
C21_DerivedNeverStored ==
    /\ OnlyRawColumns
    /\ \A i \in 1..Len(ScoredItems(resp)) :
           ScoredItems(resp)[i].totalScore = StoredSum(ScoredItems(resp)[i].id)
    /\ \A i \in 1..Len(PlayerItems(resp)) :
           LET item == PlayerItems(resp)[i]
           IN  /\ item.age = calculateAge(players[item.id].dateOfBirth)
               /\ item.ageGroup = getAgeGroup(players[item.id].dateOfBirth)
    /\ inflight.handler \in ReadOps => StoreUntouched

\* a result is read after its sub-scores were updated, in a store where a date
\* of birth was updated too: the total is that of the new sub-scores
C21_Witness ==
    /\ inflight.handler = "results.findById"
    /\ resp.status = 200
    /\ \E r \in SeqToSet(results) :
          /\ r.id = resp.body.id
          /\ r.updatedAt > r.createdAt
          /\ r.leftHandScore = 3
          /\ resp.body.totalScore = 3 + r.rightHandScore + r.forehandScore
    /\ \E id \in DOMAIN players : players[id].dateOfBirth = OlderBirth

\* the results of the store that reference the entity a detail was asked for
ResultsOf(op, id) ==
    {r \in SeqToSet(results) :
        IF op = "players.findById" THEN r.playerId = id ELSE r.testId = id}

\* C22: findById of a player or a test answers 404 when no row has the id;
\* otherwise it returns that entity (a player with age and age group) and
\* the results that reference it, all of them and no other, each with the
\* total of its own sub-scores, the most recently created first.
C22_DetailWithResults ==
    \A op \in {"players.findById", "tests.findById"} :
        inflight.handler = op =>
            LET id == inflight.request.id
                table == IF op = "players.findById" THEN players ELSE tests
            IN  IF id \notin DOMAIN table
                THEN resp = [status |-> 404, kind |-> "notfound"]
                ELSE /\ resp.status = 200
                     /\ resp.body.id = id
                     /\ op = "players.findById" =>
                            /\ resp.body.age = calculateAge(players[id].dateOfBirth)
                            /\ resp.body.ageGroup = getAgeGroup(players[id].dateOfBirth)
                     /\ {resp.testResults[i].id : i \in 1..Len(resp.testResults)}
                            = {r.id : r \in ResultsOf(op, id)}
                     /\ Len(resp.testResults) = Cardinality(ResultsOf(op, id))
                     /\ \A i \in 1..Len(resp.testResults) :
                            resp.testResults[i].totalScore
                                = StoredSum(resp.testResults[i].id)
                     /\ \A i, j \in 1..Len(resp.testResults) :
                            i < j => resp.testResults[i].createdAt
                                         >= resp.testResults[j].createdAt

\* a player is read who has one of the two stored results
C22_Witness ==
    /\ inflight.handler = "players.findById"
    /\ resp.status = 200
    /\ Len(resp.testResults) = 1
    /\ Len(results) = 2

\* a test is read with two results created one after the other
C22_OrderWitness ==
    /\ inflight.handler = "tests.findById"
    /\ resp.status = 200
    /\ Len(resp.testResults) = 2
    /\ resp.testResults[1].createdAt > resp.testResults[2].createdAt

\* a player is asked for whom nobody stored
C22_MissingWitness ==
    /\ inflight.handler = "players.findById"
    /\ resp.status = 404

(***************************************************************************)
(* Properties of the race specification                                    *)
(***************************************************************************)
\* C23: an update ends in the updated entity or in 404 and a delete in
\* success or in 404, also when another request deletes the row between the
\* existence check and the mutation: a row that has disappeared is reported
\* as 404 and never as 500.
C23_DisappearedRowIsNotFound ==
    (inflight.handler \in {"players.update", "players.delete"}
     /\ inflight.stage = "done")
    => /\ inflight.handler = "players.update" => resp.status \in {200, 404}
       /\ inflight.handler = "players.delete" => resp.status \in {204, 404}
       /\ inflight.gone => resp.status = 404

\* what does hold: no update or delete is answered 500 when the row is still
\* there at the mutation
UndisturbedMutationSucceeds ==
    (inflight.handler \in {"players.update", "players.delete"}
     /\ inflight.stage = "done" /\ ~inflight.gone /\ resp.status # 404)
    => resp.status \in {200, 204}

(***************************************************************************)
(* Properties of the interleaving specification                            *)
(***************************************************************************)
\* the envelope of the listing in flight has been sent
EnvelopeSent ==
    /\ inflight.handler \in {"tests", "results"}
    /\ inflight.responded
    /\ resp.status = 200

\* C24: the count query and the data query of a listing see the same store:
\* also with creates and deletes of other requests in between, totalItems is
\* the number of rows that matched the filter in the state the items were
\* read from, so that no page has more items than totalItems and no page
\* beyond totalPages has an item.
C24_CountAndDataAgree ==
    EnvelopeSent =>
        /\ resp.body.totalItems = inflight.dataQuery.matched
        /\ Len(resp.body.items) <= resp.body.totalItems
        /\ resp.body.page > resp.body.totalPages => resp.body.items = <<>>

\* what does hold: with no other request between the two queries the
\* envelope counts the rows the items were read from
UndisturbedListingAgrees ==
    (EnvelopeSent /\ inflight.countQuery.value = inflight.dataQuery.matched)
    => /\ Len(resp.body.items) <= resp.body.totalItems
       /\ resp.body.page > resp.body.totalPages => resp.body.items = <<>>

\* C25: the filters applied after the computation are sound. Every item of a
\* results listing asked with minScore or maxScore has a total within the
\* bounds given, a missing bound being no bound; every item of a players
\* listing asked with ageGroup has that age group; a listing asked without
\* such a filter carries every row that was fetched.
C25_PostFiltersSound ==
    /\ (inflight.handler = "results.findAll" /\ resp.status = 200) =>
           /\ \A i \in 1..Len(resp.body.items) :
                  /\ inflight.request.minScore # None =>
                         resp.body.items[i].totalScore >= Val(inflight.request.minScore)
                  /\ inflight.request.maxScore # None =>
                         resp.body.items[i].totalScore <= Val(inflight.request.maxScore)
           /\ (inflight.request.minScore = None /\ inflight.request.maxScore = None)
                  => Len(resp.body.items) = Len(results)
    /\ (inflight.handler = "players.findAll" /\ resp.status = 200) =>
           /\ inflight.request.ageGroup # None =>
                  \A i \in 1..Len(resp.items) :
                      /\ resp.items[i].ageGroup = Val(inflight.request.ageGroup)
                      /\ getAgeGroup(players[resp.items[i].id].dateOfBirth)
                             = Val(inflight.request.ageGroup)
           /\ inflight.request.ageGroup = None
                  => Len(resp.items) = Cardinality(DOMAIN players)

\* of two stored results, the one with a total of at most 10 is listed
C25_Witness ==
    /\ inflight.handler = "results.findAll"
    /\ inflight.request.minScore = None
    /\ inflight.request.maxScore = {10}
    /\ Len(resp.body.items) = 1
    /\ Len(results) = 2

\* of two stored players, the one in the age group asked for is listed
C25_AgeGroupWitness ==
    /\ inflight.handler = "players.findAll"
    /\ inflight.request.ageGroup # None
    /\ Len(resp.items) = 1
    /\ Cardinality(DOMAIN players) = 2

(***************************************************************************)
(* Properties of the bracket specification                                 *)
(***************************************************************************)
\* the labels getAgeGroup returns for ages 0 to 30
ReturnedLabels == {getAgeGroup(MkDate(FirstYear - a, 6, 1)) : a \in 0..30}

\* the stored players whose computed age group is g
InBracket(g) == {id \in DOMAIN players : getAgeGroup(players[id].dateOfBirth) = g}

\* the listing just answered was asked for age group g and lists exactly the
\* players of that bracket
SelectsBracket(g) ==
    (inflight.handler = "players.findAll" /\ inflight.request.ageGroup = {g})
    => /\ resp.status = 200
       /\ {resp.items[i].id : i \in 1..Len(resp.items)} = InBracket(g)

\* C26: each of the nine age brackets can be selected by the ageGroup filter
\* of the players listing: a listing asked for a label getAgeGroup returns is
\* accepted and lists exactly the fetched players whose computed age group
\* is that label, and every value the listing accepts is such a label.
C26_EveryBracketSelectable ==
    /\ \A g \in ReturnedLabels : SelectsBracket(g)
    /\ (inflight.handler = "players.findAll" /\ resp.status = 200)
       => inflight.request.ageGroup \subseteq ReturnedLabels

\* the same mismatch without any request: the enum is not the set of labels
EnumIsTheLabels == AgeGroupEnum = ReturnedLabels

\* what does hold: the eight brackets above Mini are selected by their label
UpperBracketsSelectable == \A g \in ReturnedLabels \ {"Mini"} : SelectsBracket(g)

\* and the value the enum has in place of Mini selects nobody, while players
\* of that bracket are stored
MiniValueSelectsNobody ==
    (inflight.handler = "players.findAll" /\ inflight.request.ageGroup = {"mini"})
    => resp.status = 200 /\ resp.items = <<>> /\ InBracket("Mini") # {}

(***************************************************************************)
(* Properties of the authentication specification                          *)
(***************************************************************************)
Routed == inflight.handler # "none"

\* the middleware of the request has returned
MiddlewareReturned == Routed /\ inflight.chain # <<>> /\ inflight.stage # "lookup"

\* C27: requireAuth ends in exactly one of next() (only for a session with a
\* user, which it has attached to the request) and one 401 response (for a
\* missing session or user and for a lookup that throws), never both and
\* never neither; optionalAuth calls next() exactly once whatever the lookup
\* gives, and sends no response.
C27_AuthDecidesOnce ==
    /\ Routed => inflight.nextCalls + inflight.sent <= 1
    /\ MiddlewareReturned => inflight.nextCalls + inflight.sent = 1
    /\ (MiddlewareReturned /\ inflight.chain = <<"requireAuth">>) =>
          /\ inflight.nextCalls = 1 <=> inflight.lookup = "user"
          /\ inflight.nextCalls = 1 => inflight.user # None
          /\ inflight.sent = 1 => (resp = Unauthorized /\ ~inflight.ran)
    /\ (MiddlewareReturned /\ inflight.chain = <<"optionalAuth">>) =>
          /\ inflight.nextCalls = 1
          /\ inflight.sent = 0
          /\ inflight.user # None <=> inflight.lookup = "user"

\* requireAuth let a request with a session through, and the controller ran
C27_Witness ==
    /\ Routed
    /\ inflight.chain = <<"requireAuth">>
    /\ inflight.lookup = "user"
    /\ inflight.nextCalls = 1
    /\ inflight.ran

\* the lookup of requireAuth threw and the request was answered 401
C27_ThrowsWitness ==
    /\ Routed
    /\ inflight.chain = <<"requireAuth">>
    /\ inflight.lookup = "throws"
    /\ resp = Unauthorized

\* the lookup of optionalAuth threw and the controller ran all the same
C27_OptionalWitness ==
    /\ Routed
    /\ inflight.chain = <<"optionalAuth">>
    /\ inflight.lookup = "throws"
    /\ inflight.ran
    /\ resp.status = 200

WriteOps == PlayersWrites \cup TestsWrites \cup ResultsWrites

\* C28: a create, update, bulk-create or delete handler of players, tests
\* or results runs only for a request for which requireAuth has called
\* next(), whichever router definition routes the request.
C28_WritesBehindRequireAuth ==
    (Routed /\ inflight.handler \in WriteOps /\ inflight.ran)
    => (inflight.chain = <<"requireAuth">> /\ inflight.nextCalls = 1)

\* what does hold: the routers that mount requireAuth keep the writes behind it
GuardedRoutersRequireAuth ==
    (Routed /\ inflight.router = "auth" /\ inflight.handler \in WriteOps /\ inflight.ran)
    => (inflight.chain = <<"requireAuth">> /\ inflight.nextCalls = 1
        /\ inflight.user # None)

\* and no read route has requireAuth in front of it
ReadsNeedNoAuth ==
    (Routed /\ inflight.handler \in ReadOps) => inflight.chain # <<"requireAuth">>

\* a read answered for a request that no middleware looked at
ReadWithoutAuth ==
    /\ Routed
    /\ inflight.handler \in ReadOps
    /\ inflight.chain = <<>>
    /\ inflight.ran
    /\ resp.status = 200

(***************************************************************************)
(* Timestamps of updated rows                                              *)
(***************************************************************************)
UpdateOps == {"players.update", "tests.update", "results.update"}

\* the row of id in store st, for the table the handler op works on
RowIn(st, op, id) ==
    IF op = "players.update" THEN st.players[id]
    ELSE IF op = "tests.update" THEN st.tests[id]
    ELSE CHOOSE r \in SeqToSet(st.results) : r.id = id

\* the update just answered 200 and the row it was asked to change
Updated(op) == Served(op) /\ resp.status = 200

\* C29: a successful update of a player, a test or a result leaves the row
\* with updatedAt at the time of the update, not before its createdAt, and
\* with the createdAt and the id it had.
C29_UpdateStampsRow ==
    \A op \in UpdateOps :
        Updated(op) =>
            LET id == inflight.request.id
                was == RowIn(inflight.before, op, id)
                row == RowIn(Store, op, id)
            IN  /\ id \in IdsNow(op)
                /\ row.createdAt = was.createdAt
                /\ row.updatedAt >= row.createdAt
                /\ row.updatedAt = inflight.at

\* what does hold: updates of tests and results stamp the row
TestsAndResultsStamped ==
    \A op \in UpdateOps \ {"players.update"} :
        Updated(op) =>
            LET id == inflight.request.id
                was == RowIn(inflight.before, op, id)
                row == RowIn(Store, op, id)
            IN  /\ id \in IdsNow(op)
                /\ row.createdAt = was.createdAt
                /\ row.updatedAt = inflight.at
                /\ row.updatedAt > was.updatedAt

\* and an update of a player keeps createdAt and leaves updatedAt as it was
PlayerUpdateKeepsTimestamps ==
    Updated("players.update") =>
        LET id == inflight.request.id
            was == inflight.before.players[id]
        IN  /\ players[id].createdAt = was.createdAt
            /\ players[id].updatedAt = was.updatedAt
            /\ players[id].updatedAt >= players[id].createdAt

(***************************************************************************)
(* Properties of the paging specification                                  *)
(***************************************************************************)
Walking == inflight.handler \in {"results.findAll", "tests.findAll"}

\* the client has read the pages 1..totalPages
WalkDone == Walking /\ Len(inflight.pages) >= resp.body.totalPages

\* the rows the storage filter of the listing matches
WalkMatches ==
    IF inflight.handler = "tests.findAll"
    THEN {[id |-> id, createdAt |-> tests[id].createdAt, inRange |-> TRUE] :
             id \in DOMAIN tests}
    ELSE {[id |-> r.id, createdAt |-> r.createdAt,
           inRange |-> resultsService_isResultInScoreRange(
                           resultsService_calculateTotalScore(r),
                           inflight.request.minScore, inflight.request.maxScore)] :
             r \in {x \in SeqToSet(results) :
                       resultsConditions(x, inflight.request.playerId, None, None, None)}}

PagesDisjointAndComplete ==
    /\ Store = inflight.before
    /\ \A i \in 1..Len(inflight.pages), j \in 1..Len(inflight.pages) :
          i # j => inflight.pages[i] \cap inflight.pages[j] = {}
    /\ UNION {inflight.pages[i] : i \in 1..Len(inflight.pages)}
          = {m.id : m \in {x \in WalkMatches : x.inRange}}

\* C30: with the store unchanged and filter and limit fixed, the pages
\* 1..totalPages of a tests or results listing have no row in common and
\* together carry exactly the rows that match the storage filter and the
\* score range, also when rows share their createdAt.
C30_PagesPartition == WalkDone => PagesDisjointAndComplete

\* what does hold: the pages partition the rows when no two matching rows
\* share their createdAt
DistinctStampsPartition ==
    (WalkDone /\ \A x \in WalkMatches, y \in WalkMatches :
                    x.createdAt = y.createdAt => x = y)
    => PagesDisjointAndComplete

\* a walk of more than one page over rows of one createdAt that did partition
TiedWalkThatPartitions ==
    /\ WalkDone
    /\ Len(inflight.pages) > 1
    /\ \E x \in WalkMatches, y \in WalkMatches :
          x # y /\ x.createdAt = y.createdAt
    /\ PagesDisjointAndComplete

====
